---- MODULE Spec2Model ----
(***************************************************************************)
(* Model of woudc_api/plugins/validate.py: ExtendedCSVProcessor.execute    *)
(* and the eleven metadata checks it runs against the registry.            *)
(*                                                                         *)
(* Python values are tagged records (PyVal).  Floats are fixed-point       *)
(* numbers counted in tenths (1.0 is 10), dates and times are ordinals.    *)
(* Text is a TLA+ string; its characters are read with SubSeq.             *)
(***************************************************************************)
EXTENDS Integers, Sequences, FiniteSets, TLC

VARIABLES
    pc,         \* position of the execute call
    inputs,     \* the request: extcsv parse outcome and flags
    registry,   \* Elasticsearch indices: index name -> sequence of documents
    severe,     \* codes the report library classifies as Error
    ecsv,       \* self.ecsv: tables, table order, line numbers
    errors,     \* self.ecsv.errors
    warnings,   \* self.ecsv.warnings
    self,       \* the record fields execute copies out of the tables
    ok,         \* execute's local result flags
    lookups,    \* es.search calls issued so far
    invoked,    \* check methods entered so far, with what they returned
    summary,    \* the returned response body
    previous,   \* what the client's earlier call with the same file ended in
    search,     \* a distinct-groups request (plugins/distinct.py) in progress
    metrics,    \* the MetricsProcessor object (plugins/metrics.py)
    threads     \* execute calls sharing the ExtendedCSVProcessor object

vars == <<pc, inputs, registry, severe, ecsv, errors, warnings, self, ok,
          lookups, invoked, summary, previous, search, metrics, threads>>

----------------------------------------------------------------------------
(* Bounds of the model *)

\* Largest number of documents one registry key is duplicated to.
MaxDup == 2
\* Longest station id drawn (ids of 0..MaxIdLen characters).
MaxIdLen == 4

----------------------------------------------------------------------------
(* Python values *)

None == [t |-> "none", n |-> 0, s |-> ""]
Str(x) == [t |-> "str", n |-> 0, s |-> x]
IntV(x) == [t |-> "int", n |-> x, s |-> ""]
Flt(x) == [t |-> "float", n |-> x, s |-> ""]
Date(x) == [t |-> "date", n |-> x, s |-> ""]
Time(x) == [t |-> "time", n |-> x, s |-> ""]
List(xs) == [t |-> "list", n |-> 0, s |-> "", items |-> xs]

NoKw == [k \in {} |-> 0]

\* bool(v)
Truthy(v) ==
    CASE v.t = "none" -> FALSE
      [] v.t = "str" -> v.s # ""
      [] v.t \in {"int", "float"} -> v.n # 0
      [] v.t = "list" -> v.items # <<>>
      [] OTHER -> TRUE

Ch(s, i) == SubSeq(s, i, i)
Digits == "0123456789"
DigitVal(c) == (CHOOSE d \in 1..10 : Ch(Digits, d) = c) - 1
AllDigits(s) ==
    LET
        IsDigit(c) == \E d \in 1..10 : Ch(Digits, d) = c
    IN
                        \A i \in 1..Len(s) : IsDigit(Ch(s, i))

RECURSIVE NatVal(_)
NatVal(s) == IF Len(s) = 0 THEN 0
             ELSE 10 * NatVal(SubSeq(s, 1, Len(s) - 1)) + DigitVal(Ch(s, Len(s)))

RECURSIVE NatStr(_)
NatStr(k) == IF k < 10 THEN Ch(Digits, k + 1)
             ELSE NatStr(k \div 10) \o Ch(Digits, (k % 10) + 1)

RECURSIVE Strip(_)
Strip(s) == IF Len(s) > 0 /\ Ch(s, 1) = " " THEN Strip(SubSeq(s, 2, Len(s)))
            ELSE IF Len(s) > 0 /\ Ch(s, Len(s)) = " "
                 THEN Strip(SubSeq(s, 1, Len(s) - 1))
            ELSE s

HasSign(s) == Len(s) > 0 /\ Ch(s, 1) \in {"-", "+"}
Unsigned(s) == IF HasSign(s) THEN SubSeq(s, 2, Len(s)) ELSE s
Sign(s) == IF Len(s) > 0 /\ Ch(s, 1) = "-" THEN -1 ELSE 1
DotAt(s) == IF \E i \in 1..Len(s) : Ch(s, i) = "."
            THEN CHOOSE i \in 1..Len(s) :
                    Ch(s, i) = "." /\ \A j \in 1..(i - 1) : Ch(s, j) # "."
            ELSE Len(s) + 1
IntPart(s) == SubSeq(s, 1, DotAt(s) - 1)
FracPart(s) == SubSeq(s, DotAt(s) + 1, Len(s))

\* The texts float() accepts: [sign] digits [. digits], at least one digit.
\* (Exponents, inf, nan and underscores are not drawn by any input set.)
FloatText(s0) ==
    LET s == Unsigned(Strip(s0)) IN
    /\ AllDigits(IntPart(s)) /\ AllDigits(FracPart(s))
    /\ Len(IntPart(s)) + Len(FracPart(s)) > 0

\* int(x) of a float in tenths: truncation toward zero.
Trunc(x) == IF x >= 0 THEN x \div 10 ELSE -((-x) \div 10)

IntStr(k) == IF k < 0 THEN "-" \o NatStr(-k) ELSE NatStr(k)

\* str(v)
PyStr(v) ==
    LET
        FloatStr(x) ==
            (IF x < 0 THEN "-" ELSE "") \o
            NatStr((IF x < 0 THEN -x ELSE x) \div 10) \o "." \o
            NatStr((IF x < 0 THEN -x ELSE x) % 10)
    IN
            CASE v.t = "none" -> "None"
              [] v.t = "str" -> v.s
              [] v.t = "int" -> IntStr(v.n)
              [] v.t = "float" -> FloatStr(v.n)
              [] OTHER -> "<object>"

\* float(v): "ok" with the value, or the exception Python raises.
PyFloat(v) ==
    LET
        \* float(text) in tenths; digits after the first decimal are dropped.
        FloatOfText(s0) ==
            LET s == Unsigned(Strip(s0)) IN
            Sign(Strip(s0)) * (10 * NatVal(IntPart(s))
                + (IF Len(FracPart(s)) > 0 THEN DigitVal(Ch(FracPart(s), 1)) ELSE 0))
    IN
            CASE v.t = "float" -> [exc |-> "", val |-> v.n]
              [] v.t = "int" -> [exc |-> "", val |-> 10 * v.n]
              [] v.t = "str" -> IF FloatText(v.s)
                                THEN [exc |-> "", val |-> FloatOfText(v.s)]
                                ELSE [exc |-> "ValueError", val |-> 0]
              [] OTHER -> [exc |-> "TypeError", val |-> 0]

\* int(v)
PyInt(v) ==
    LET
        \* The texts int() accepts: [sign] digits.
        IntText(s0) ==
            LET s == Unsigned(Strip(s0)) IN Len(s) > 0 /\ AllDigits(s)

        IntOfText(s0) == Sign(Strip(s0)) * NatVal(Unsigned(Strip(s0)))
    IN
            CASE v.t = "int" -> [exc |-> "", val |-> v.n]
              [] v.t = "float" -> [exc |-> "", val |-> Trunc(v.n)]
              [] v.t = "str" -> IF IntText(v.s)
                                THEN [exc |-> "", val |-> IntOfText(v.s)]
                                ELSE [exc |-> "ValueError", val |-> 0]
              [] OTHER -> [exc |-> "TypeError", val |-> 0]

\* str.rjust(width, fill)
RECURSIVE rjust(_, _, _)
rjust(s, width, fill) ==
    IF Len(s) >= width THEN s ELSE rjust(fill \o s, width, fill)

\* sep.join(parts) for parts that are all str
RECURSIVE JoinText(_, _)
JoinText(parts, sep) ==
    IF Len(parts) = 0 THEN ""
    ELSE IF Len(parts) = 1 THEN parts[1].s
    ELSE parts[1].s \o sep \o JoinText(Tail(parts), sep)

AllStr(parts) == \A i \in 1..Len(parts) : parts[i].t = "str"

\* str.lower()
RECURSIVE lower(_)
lower(s) ==
    LET
        LowerCh(c) ==
            LET
                Upper == "ABCDEFGHIJKLMNOPQRSTUVWXYZ"

                Lower == "abcdefghijklmnopqrstuvwxyz"
            IN
                              IF \E i \in 1..26 : Ch(Upper, i) = c
                              THEN Ch(Lower, CHOOSE i \in 1..26 : Ch(Upper, i) = c)
                              ELSE c
    IN
                    IF Len(s) = 0 THEN ""
                    ELSE LowerCh(Ch(s, 1)) \o lower(SubSeq(s, 2, Len(s)))

Range(f) == {f[i] : i \in DOMAIN f}

----------------------------------------------------------------------------
(* The registry (Elasticsearch) and the two query helpers *)

IndexPrefix == "woudc_data_registry."

\* query_by_field: documents of the index whose properties.<field>.raw is value
query_by_field(index, field, value) ==
    SelectSeq(registry[IndexPrefix \o index],
              LAMBDA d : /\ value.t = "str"
                         /\ field \in DOMAIN d.properties
                         /\ d.properties[field] = value.s)

\* query_aggregations: the bucket keys of a terms aggregation on the field
query_aggregations(index, field) ==
    {d.properties[field] : d \in Range(registry[IndexPrefix \o index])}

\* one es.search call, as recorded in lookups together with the number of
\* errors and warnings the report held when it was sent
Search(c, index, kind, field, value) ==
    [c EXCEPT !.lookups = Append(@, [index |-> IndexPrefix \o index,
                                     kind |-> kind, field |-> field,
                                     value |-> value,
                                     errors |-> Len(c.errors),
                                     warnings |-> Len(c.warnings)])]

----------------------------------------------------------------------------
(* The report *)

Diag(code, line, kw) == [code |-> code, line |-> line, kw |-> kw]

\* ExtendedCSV._add_to_report: files the diagnostic under errors or warnings
\* and returns whether it was not an error.  (line 0 stands for "no line".)
add_to_report(c, code, line, kw) ==
    IF code \in severe
    THEN [c EXCEPT !.errors = Append(@, Diag(code, line, kw)), !.ret = FALSE]
    ELSE [c EXCEPT !.warnings = Append(@, Diag(code, line, kw)), !.ret = TRUE]

\* faulty variant: the check fails on every diagnostic, warnings included
Report_any(c, code, line, kw) ==
    [add_to_report(c, code, line, kw) EXCEPT !.success = FALSE]

\* if not self.ecsv._add_to_report(...): success = False
Report(c, code, line, kw) ==
    LET r == add_to_report(c, code, line, kw)
    IN  IF ~r.ret THEN [r EXCEPT !.success = FALSE] ELSE r

line_num(table) == ecsv.line_num[table]

\* A check method's frame: the record it works on, the report, its local
\* success flag, whether it has returned, and the exception it raised.
Frame == [rec |-> self, errors |-> errors, warnings |-> warnings,
          lookups |-> lookups, success |-> TRUE, ret |-> TRUE,
          done |-> FALSE, exc |-> "",
          loc |-> [lat_numeric |-> None, lon_numeric |-> None,
                   height_numeric |-> None]]

Live(c) == ~c.done /\ c.exc = ""
Raise(c, e) == [c EXCEPT !.exc = e]
Return(c) == [c EXCEPT !.done = TRUE]

----------------------------------------------------------------------------
(* check_project, check_dataset *)

InKeys(v, keys) == v.t = "str" /\ v.s \in keys

check_project(c) ==
    LET c1 == Search(c, "project", "aggs", "identifier", None)
        projects == query_aggregations("project", "identifier")
    IN  Return(IF ~InKeys(c.rec.project, projects)
               THEN Report(c1, 51, line_num("CONTENT") + 2,
                           [value |-> c.rec.project])
               ELSE c1)

check_dataset(c) ==
    LET c1 == Search(c, "dataset", "aggs", "identifier", None)
        datasets == query_aggregations("dataset", "identifier")
                        \cup {"UmkehrN14"}
    IN  Return(IF ~InKeys(c.rec.dataset, datasets)
               THEN Report(c1, 52, line_num("CONTENT") + 2,
                           [value |-> c.rec.dataset])
               ELSE c1)

----------------------------------------------------------------------------
(* check_content *)

content_form(c) ==
    LET valueline == line_num("CONTENT") + 2
        conv == PyInt(c.rec.form)
    IN  IF c.rec.form.t = "int" THEN c
        ELSE IF conv.exc = "ValueError" THEN Report(c, 58, valueline, NoKw)
        ELSE IF conv.exc # "" THEN Raise(c, conv.exc)
        ELSE [Report(c, 57, valueline, [oldvalue |-> c.rec.form,
                                        newvalue |-> IntV(conv.val)])
                EXCEPT !.rec.form = IntV(conv.val)]

content_level(c) ==
    LET valueline == line_num("CONTENT") + 2
        conv == PyFloat(c.rec.level)
    IN  IF ~Live(c) \/ c.rec.level.t = "float" THEN c
        ELSE IF conv.exc = "ValueError" THEN Report(c, 55, valueline, NoKw)
        ELSE IF conv.exc # "" THEN Raise(c, conv.exc)
        ELSE [Report(c, 54, valueline, [oldvalue |-> c.rec.level,
                                        newvalue |-> Flt(conv.val)])
                EXCEPT !.rec.level = Flt(conv.val)]

\* faulty variant: the two branches are exchanged
umkehr_level_swapped ==
    IF "C_PROFILE" \in DOMAIN ecsv.extcsv THEN 10 ELSE 20

\* The level the code forces on an UmkehrN14 file.
umkehr_level == IF "C_PROFILE" \in DOMAIN ecsv.extcsv THEN 20 ELSE 10

content_umkehr(c) ==
    LET
        \* v == <float literal x>, x in tenths
        EqFloat(v, x) ==
            \/ v.t = "float" /\ v.n = x
            \/ v.t = "int" /\ 10 * v.n = x
    IN
            LET valueline == line_num("CONTENT") + 2
                c1 == IF ~EqFloat(c.rec.level, umkehr_level)
                      THEN [Report(c, 53, valueline, [value |-> Flt(umkehr_level)])
                              EXCEPT !.rec.level = Flt(umkehr_level)]
                      ELSE c
            IN  IF ~Live(c) \/ c.rec.dataset # Str("UmkehrN14") THEN c
                ELSE [c1 EXCEPT !.rec.dataset =
                            Str(c.rec.dataset.s \o "_" \o PyStr(c1.rec.level))]

content_levels(c) ==
    LET
        \* label[len(label)-3:]
        Last3(label) == SubSeq(label, IF Len(label) > 3 THEN Len(label) - 2 ELSE 1,
                               Len(label))
    IN
            LET valueline == line_num("CONTENT") + 2
                c1 == Search(c, "discovery_metadata", "term", "identifier",
                             c.rec.dataset)
                content_body == query_by_field("discovery_metadata", "identifier",
                                               c.rec.dataset)
                levels == {Last3(l.label_en) :
                             l \in Range(content_body[1].properties.levels)}
            IN  IF ~Live(c) THEN c
                ELSE IF ~c.success THEN Return(c)
                ELSE IF Len(content_body) = 0 THEN Raise(c1, "IndexError")
                ELSE Return(IF PyStr(c.rec.level) \notin levels
                            THEN Report(c1, 56, valueline, [dataset |-> c.rec.dataset])
                            ELSE c1)

check_content(c) ==
    content_levels(content_umkehr(content_level(content_form(c))))

----------------------------------------------------------------------------
(* check_contributor *)

check_contributor(c) ==
    LET
        \* the bool/must query of check_contributor
        contributor_hits(project, agency) ==
            SelectSeq(registry[IndexPrefix \o "contributor"],
                      LAMBDA d : /\ project.t = "str" /\ d.properties.project = project.s
                                 /\ agency.t = "str" /\ d.properties.acronym = agency.s)
    IN
            LET c1 == Search(c, "contributor", "bool", "project+acronym",
                             Str(PyStr(c.rec.project) \o ":" \o PyStr(c.rec.agency)))
                contributor_body == contributor_hits(c.rec.project, c.rec.agency)
            IN  Return(IF Len(contributor_body) # 1
                       THEN Report(c1, 67, line_num("DATA_GENERATION") + 2, NoKw)
                       ELSE c1)

----------------------------------------------------------------------------
(* check_station *)

\* faulty variant: one of the at-sea codes is missing
water_codes_short == {"IW", "XZ"}
water_codes == {"*IW", "IW", "XZ"}

station_country(c) ==
    LET
        \* station_type == 'SHP' and any([not country, country in water_codes])
        station_at_sea(rec) ==
            /\ rec.station_type = Str("SHP")
            /\ \/ ~Truthy(rec.country)
               \/ rec.country.t = "str" /\ rec.country.s \in water_codes
    IN
            IF station_at_sea(c.rec)
            THEN Report([c EXCEPT !.rec.country = Str("XY")], 75,
                        line_num("PLATFORM") + 2, NoKw)
            ELSE c

\* faulty variant: the id is not padded
station_pad_none(id) == id

\* self.station_id.rjust(3, '0')
station_pad(id) == Str(rjust(id.s, 3, "0"))

station_id_length(c) ==
    LET c1 == IF Len(c.rec.station_id.s) < 3
              THEN Report(c, 70, line_num("PLATFORM") + 2, NoKw)
              ELSE c
    IN  [c1 EXCEPT !.rec.station_id = station_pad(c.rec.station_id)]

\* The comparisons made once station_body[0] has been read.
station_compare(c, station_properties) ==
    LET
        platform_types == {"STN", "SHP"}
    IN
            LET valueline == line_num("PLATFORM") + 2
                c1 == IF /\ c.rec.station_type.t = "str"
                         /\ c.rec.station_type.s \in platform_types
                         /\ c.rec.station_type.s = station_properties.type
                      THEN c
                      ELSE Report(c, 72, valueline, NoKw)
                c2 == IF Str(station_properties.name) = c1.rec.station_name
                      THEN c1
                      ELSE Report(c1, 73, valueline, NoKw)
                c3 == Search(c2, "country", "term", "identifier", c2.rec.country)
                country_body == query_by_field("country", "identifier", c2.rec.country)
            IN  IF ~c2.success THEN Return(c2)
                ELSE IF Len(country_body) # 1
                THEN Return(Report(c3, 74, valueline, NoKw))
                ELSE IF country_body[1].properties.country_name_en
                            # station_properties.country_name_en
                THEN Return(Report(c3, 74, valueline, NoKw))
                ELSE Return(c3)

\* faulty variant: after code 71 the check goes on with the first document
station_lookup_through(c) ==
    LET valueline == line_num("PLATFORM") + 2
        c1 == Search(c, "station", "term", "woudc_id", c.rec.station_id)
        station_body == query_by_field("station", "woudc_id", c.rec.station_id)
        c2 == IF Len(station_body) # 1
              THEN Report(c1, 71, valueline, NoKw)
              ELSE c1
    IN  IF Len(station_body) = 0 THEN Return(c2)
        ELSE station_compare(c2, station_body[1].properties)

station_lookup(c) ==
    LET valueline == line_num("PLATFORM") + 2
        c1 == Search(c, "station", "term", "woudc_id", c.rec.station_id)
        station_body == query_by_field("station", "woudc_id", c.rec.station_id)
        c2 == IF Len(station_body) # 1
              THEN LET r == add_to_report(c1, 71, valueline, NoKw)
                   IN  IF ~r.ret THEN Return([r EXCEPT !.success = FALSE])
                       ELSE r
              ELSE c1
    IN  IF ~Live(c2) THEN c2
        ELSE IF Len(station_body) = 0 THEN Raise(c2, "IndexError")
        ELSE station_compare(c2, station_body[1].properties)

check_station(c) == station_lookup(station_id_length(station_country(c)))

----------------------------------------------------------------------------
(* check_deployment *)

check_deployment(c) ==
    LET parts == <<c.rec.station_id, c.rec.agency, c.rec.project>>
        deployment_id == Str(JoinText(parts, ":"))
        c1 == Search(c, "deployment", "term", "identifier", deployment_id)
        deployment_body == query_by_field("deployment", "identifier",
                                          deployment_id)
    IN  IF ~AllStr(parts) THEN Raise(c, "TypeError")
        ELSE Return(IF Len(deployment_body) # 1
                    THEN Report(c1, 88, line_num("PLATFORM") + 2,
                                [ident |-> deployment_id])
                    ELSE c1)

----------------------------------------------------------------------------
(* check_instrument_name_and_model *)

placeholders == {"na", "n/a"}

instrument_name_check(c) ==
    LET valueline == line_num("INSTRUMENT") + 2
        name == c.rec.instrument_name
        c1 == Search(c, "instrument", "aggs", "name", None)
        names == query_aggregations("instrument", "name")
    IN  IF ~Truthy(name)
        THEN [Report(c, 82, valueline, NoKw)
                EXCEPT !.rec.instrument_name = Str("UNKNOWN")]
        ELSE IF name.t # "str" THEN Raise(c, "AttributeError")
        ELSE IF lower(name.s) \in placeholders
        THEN [Report(c, 82, valueline, NoKw)
                EXCEPT !.rec.instrument_name = Str("UNKNOWN")]
        ELSE IF ~InKeys(name, names)
        THEN Report(c1, 85, valueline, [value |-> name])
        ELSE c1

instrument_model_check(c) ==
    LET valueline == line_num("INSTRUMENT") + 2
        model == c.rec.instrument_model
        c1 == Search(c, "instrument", "aggs", "model", None)
        models == query_aggregations("instrument", "model")
    IN  IF ~Live(c) THEN c
        ELSE IF ~Truthy(model) \/ lower(PyStr(model)) \in placeholders
        THEN Return([Report(c, 83, valueline, NoKw)
                       EXCEPT !.rec.instrument_model = Str("UNKNOWN")])
        ELSE IF ~InKeys(model, models)
        THEN Return(Report(c1, 86, valueline, NoKw))
        ELSE Return(c1)

check_instrument_name_and_model(c) ==
    instrument_model_check(instrument_name_check(c))

----------------------------------------------------------------------------
(* check_instrument, build_instrument_id *)

\* faulty variant: the dataset and the station id change places
build_instrument_id_swapped(c) ==
    LET parts == <<c.rec.instrument_name, c.rec.instrument_model,
                   c.rec.instrument_number, c.rec.station_id, c.rec.dataset,
                   c.rec.agency, c.rec.project>>
    IN  IF AllStr(parts)
        THEN [c EXCEPT !.rec.instrument_id = Str(JoinText(parts, ":"))]
        ELSE Raise(c, "TypeError")

build_instrument_id(c) ==
    LET
        id_elements(rec) ==
            <<rec.instrument_name, rec.instrument_model, rec.instrument_number,
              rec.dataset, rec.station_id, rec.agency, rec.project>>
    IN
            IF AllStr(id_elements(c.rec))
            THEN [c EXCEPT !.rec.instrument_id = Str(JoinText(id_elements(c.rec), ":"))]
            ELSE Raise(c, "TypeError")

instrument_number_default(c) ==
    IF \/ ~Truthy(c.rec.instrument_number)
       \/ lower(PyStr(c.rec.instrument_number)) \in placeholders
    THEN [c EXCEPT !.rec.instrument_number = Str("UNKNOWN")]
    ELSE c

check_instrument(c) ==
    LET c1 == build_instrument_id(instrument_number_default(c))
        c2 == Search(c1, "instrument", "term", "identifier",
                     c1.rec.instrument_id)
        instrument_body == query_by_field("instrument", "identifier",
                                          c1.rec.instrument_id)
    IN  IF ~Live(c1) THEN c1
        ELSE Return(IF Len(instrument_body) # 1
                    THEN Report(c2, 87, line_num("INSTRUMENT") + 2, NoKw)
                    ELSE c2)

----------------------------------------------------------------------------
(* check_location; distances and heights in tenths *)

latitude_error_distance == 10
longitude_error_distance == 10
height_error_distance == 500
polar_ignore_longitude == TRUE
polar_latitude_range == 10
ships_ignore_location == FALSE

Abs(x) == IF x < 0 THEN -x ELSE x

\* faulty variant: the bounds -90 and 90 themselves are rejected
location_latitude_strict(c) ==
    LET valueline == line_num("LOCATION") + 2
        conv == PyFloat(c.rec.latitude)
    IN  IF conv.exc = "ValueError"
        THEN [Report(c, 76, valueline, [field |-> "Longitude"])
                EXCEPT !.rec.latitude = None, !.loc.lat_numeric = None]
        ELSE IF conv.exc # "" THEN Raise(c, conv.exc)
        ELSE LET c1 == [c EXCEPT !.loc.lat_numeric = Flt(conv.val)]
             IN  IF -900 < conv.val /\ conv.val < 900 THEN c1
                 ELSE Report(c1, 78, valueline,
                             [field |-> "Latitude", lower |-> IntV(-90),
                              upper |-> IntV(90)])

location_latitude(c) ==
    LET valueline == line_num("LOCATION") + 2
        conv == PyFloat(c.rec.latitude)
    IN  IF conv.exc = "ValueError"
        THEN [Report(c, 76, valueline, [field |-> "Longitude"])
                EXCEPT !.rec.latitude = None, !.loc.lat_numeric = None]
        ELSE IF conv.exc # "" THEN Raise(c, conv.exc)
        ELSE LET c1 == [c EXCEPT !.loc.lat_numeric = Flt(conv.val)]
             IN  IF -900 <= conv.val /\ conv.val <= 900 THEN c1
                 ELSE Report(c1, 78, valueline,
                             [field |-> "Latitude", lower |-> IntV(-90),
                              upper |-> IntV(90)])

location_longitude(c) ==
    LET valueline == line_num("LOCATION") + 2
        conv == PyFloat(c.rec.longitude)
    IN  IF ~Live(c) THEN c
        ELSE IF conv.exc = "ValueError"
        THEN [Report(c, 76, valueline, [field |-> "Longitude"])
                EXCEPT !.rec.longitude = None, !.loc.lon_numeric = None]
        ELSE IF conv.exc # "" THEN Raise(c, conv.exc)
        ELSE LET c1 == [c EXCEPT !.loc.lon_numeric = Flt(conv.val)]
             IN  IF -1800 <= conv.val /\ conv.val <= 1800 THEN c1
                 ELSE Report(c1, 78, valueline,
                             [field |-> "Longitude", lower |-> IntV(-180),
                              upper |-> IntV(180)])

location_height(c) ==
    LET valueline == line_num("LOCATION") + 2
        conv == PyFloat(c.rec.height)
    IN  IF ~Live(c) \/ ~Truthy(c.rec.height) THEN c
        ELSE IF conv.exc = "ValueError"
        THEN [Report(c, 77, valueline, NoKw)
                EXCEPT !.rec.height = None, !.loc.height_numeric = None]
        ELSE IF conv.exc # "" THEN Raise(c, conv.exc)
        ELSE LET c1 == [c EXCEPT !.loc.height_numeric = Flt(conv.val)]
             IN  IF -500 <= conv.val /\ conv.val <= 51000 THEN c1
                 ELSE Report(c1, 79, valueline,
                             [lower |-> IntV(-50), upper |-> IntV(5100)])

\* faulty variant: only the band of the north pole is recognised
in_polar_region_north(lat_numeric) ==
    lat_numeric # None /\ lat_numeric.n > 900 - polar_latitude_range

\* lat_numeric is not None and abs(lat_numeric) > 90 - polar_latitude_range
in_polar_region(lat_numeric) ==
    lat_numeric # None /\ Abs(lat_numeric.n) > 900 - polar_latitude_range

location_compare(c, coordinates) ==
    LET
        \* abs(submitted - reference) >= interval
        deviates(submitted, reference, interval) ==
            Abs(submitted.n - reference.n) >= interval

        \* whether the longitude deviation is not compared at this latitude
        skip_longitude(lat_numeric) ==
            in_polar_region(lat_numeric) /\ polar_ignore_longitude
    IN
            LET valueline == line_num("LOCATION") + 2
                lat == c.loc.lat_numeric
                lon == c.loc.lon_numeric
                height == c.loc.height_numeric
                c1 == IF /\ lat # None /\ coordinates[2] # None
                         /\ deviates(lat, coordinates[2], latitude_error_distance)
                      THEN Report(c, 80, valueline, [field |-> "Latitude"])
                      ELSE c
                c2 == IF /\ lon # None /\ coordinates[1] # None
                         /\ ~skip_longitude(lat)
                         /\ deviates(lon, coordinates[1], longitude_error_distance)
                      THEN Report(c1, 80, valueline, [field |-> "Longitude"])
                      ELSE c1
            IN  IF lat # None /\ Len(coordinates) < 2 THEN Raise(c, "IndexError")
                ELSE IF lon # None /\ Len(coordinates) < 1 THEN Raise(c1, "IndexError")
                ELSE IF height = None THEN Return(c2)
                ELSE IF Len(coordinates) < 3 THEN Raise(c2, "IndexError")
                ELSE IF /\ coordinates[3] # None
                        /\ deviates(height, coordinates[3], height_error_distance)
                THEN Return(Report(c2, 81, valueline, NoKw))
                ELSE Return(c2)

location_reference(c) ==
    LET
        \* station_type == 'SHP' and ignore_ships
        location_skip_ship(rec) ==
            LET ignore_ships == ~ships_ignore_location
            IN  rec.station_type = Str("SHP") /\ ignore_ships
    IN
            LET c1 == Search(c, "instrument", "term", "identifier",
                             c.rec.instrument_id)
                location_body == query_by_field("instrument", "identifier",
                                                c.rec.instrument_id)
            IN  IF ~Live(c) THEN c
                ELSE IF ~c.success THEN Return(c)
                ELSE IF location_skip_ship(c.rec) THEN Return(c)
                ELSE IF c.rec.instrument_id = None THEN Raise(c, "AttributeError")
                ELSE IF Len(location_body) = 0 THEN Raise(c1, "IndexError")
                ELSE location_compare(c1, location_body[1].geometry.coordinates)

check_location(c) ==
    location_reference(location_height(location_longitude(
        location_latitude(c))))

----------------------------------------------------------------------------
(* check_data_generation *)

check_data_generation(c) ==
    LET valueline == line_num("DATA_GENERATION")
        c1 == IF ~Truthy(c.rec.dg_date)
              THEN Report(c, 62, valueline, NoKw)
              ELSE c
        conv == PyFloat(c.rec.version)
        c2 == IF ~(0 <= conv.val /\ conv.val <= 200)
              THEN Report(c1, 64, valueline,
                          [lower |-> Flt(0), upper |-> Flt(200)])
              ELSE c1
        c3 == IF PyStr(c.rec.version) = IntStr(Trunc(conv.val))
              THEN Report(c2, 65, valueline, NoKw)
              ELSE c2
    IN  IF conv.exc = "TypeError"
        THEN Return(Report(c1, 63, valueline, [default |-> Flt(10)]))
        ELSE IF conv.exc # "" THEN Raise(c1, conv.exc)
        ELSE Return(c3)

----------------------------------------------------------------------------
(* check_time_series *)

\* isinstance(v, (str, int, type(None)))
NonComparable(v) == v.t \in {"str", "int", "none"}

\* faulty variant: only the table named exactly TIMESTAMP gets code 91
date_code_exact(table) == IF table = "TIMESTAMP" THEN 91 ELSE 92

\* table.startswith('TIMESTAMP')
date_code(table) ==
    IF Len(table) >= 9 /\ SubSeq(table, 1, 9) = "TIMESTAMP" THEN 91 ELSE 92

\* body.get(name, []), wrapped in a list when it is a single value
column(body, name) ==
    IF name \notin DOMAIN body THEN <<>>
    ELSE IF body[name].t = "list" THEN body[name].items
    ELSE <<body[name]>>

\* the body of the loop over date_column, for the value at index i (from 1)
date_row(c, table, other_date, i) ==
    LET line == line_num(table) + 2 + (i - 1)
        dg_date == c.rec.dg_date
    IN  IF NonComparable(other_date) \/ NonComparable(dg_date)
        THEN Report(c, date_code(table), line, [table |-> table])
        ELSE IF other_date.t # dg_date.t THEN Raise(c, "TypeError")
        ELSE IF other_date.n > dg_date.n
        THEN Report(c, date_code(table), line, [table |-> table])
        ELSE c

\* the body of the loop over time_column
time_row(c, table, other_time, i) ==
    LET line == line_num(table) + 2 + (i - 1)
        ts_time == c.rec.ts_time
    IN  IF NonComparable(other_time) \/ NonComparable(ts_time) THEN c
        ELSE IF other_time.t # ts_time.t THEN Raise(c, "TypeError")
        ELSE IF other_time.n < ts_time.n THEN Report(c, 93, line, NoKw)
        ELSE c

RECURSIVE date_rows(_, _, _, _)
date_rows(c, table, col, i) ==
    IF ~Live(c) \/ i > Len(col) THEN c
    ELSE date_rows(date_row(c, table, col[i], i), table, col, i + 1)

RECURSIVE time_rows(_, _, _, _)
time_rows(c, table, col, i) ==
    IF ~Live(c) \/ i > Len(col) \/ ~Truthy(c.rec.ts_time) THEN c
    ELSE time_rows(time_row(c, table, col[i], i), table, col, i + 1)

\* the loop over self.ecsv.extcsv.items(), from the k-th table on
RECURSIVE table_rows(_, _)
table_rows(c, k) ==
    IF ~Live(c) \/ k > Len(ecsv.order) THEN c
    ELSE LET table == ecsv.order[k]
             body == ecsv.extcsv[table]
         IN  IF table = "DATA_GENERATION" THEN table_rows(c, k + 1)
             ELSE table_rows(
                    time_rows(date_rows(c, table, column(body, "Date"), 1),
                              table, column(body, "Time"), 1),
                    k + 1)

check_time_series(c) ==
    LET r == table_rows(c, 1) IN IF Live(r) THEN Return(r) ELSE r

----------------------------------------------------------------------------
(* execute: parsing and loading the record *)

Get(body, col) == IF col \in DOMAIN body THEN body[col] ELSE None

EmptyCSV == [extcsv |-> [t \in {} |-> 0], order |-> <<>>,
             line_num |-> [t \in {} |-> 0]]

\* lines 775-796: the fields execute copies out of the tables
load_record(x) ==
    [project |-> x["CONTENT"]["Class"],
     dataset |-> x["CONTENT"]["Category"],
     level |-> x["CONTENT"]["Level"],
     form |-> x["CONTENT"]["Form"],
     agency |-> x["DATA_GENERATION"]["Agency"],
     dg_date |-> x["DATA_GENERATION"]["Date"],
     version |-> Get(x["DATA_GENERATION"], "Version"),
     station_type |-> x["PLATFORM"]["Type"],
     station_id |-> Str(PyStr(x["PLATFORM"]["ID"])),
     station_name |-> x["PLATFORM"]["Name"],
     country |-> x["PLATFORM"]["Country"],
     instrument_name |-> x["INSTRUMENT"]["Name"],
     instrument_model |-> Str(PyStr(x["INSTRUMENT"]["Model"])),
     instrument_number |-> Str(PyStr(x["INSTRUMENT"]["Number"])),
     instrument_id |-> None,
     latitude |-> x["LOCATION"]["Latitude"],
     longitude |-> x["LOCATION"]["Longitude"],
     height |-> Get(x["LOCATION"], "Height"),
     ts_date |-> x["TIMESTAMP"]["Date"],
     ts_time |-> Get(x["TIMESTAMP"], "Time"),
     success |-> TRUE]

\* the record before execute has loaded it
Unloaded ==
    [f \in {"project", "dataset", "level", "form", "agency", "dg_date",
            "version", "station_type", "station_id", "station_name",
            "country", "instrument_name", "instrument_model",
            "instrument_number", "instrument_id", "latitude", "longitude",
            "height", "ts_date", "ts_time"} |-> None] @@ [success |-> TRUE]

\* faulty variant: the except branch does not clear self.success
parse_success_kept(req) == TRUE

\* lines 758-771: whether the two parse stages leave self.success set
parse_success(req) == req.parse = "ok"

Parse ==
    LET
        \* line 773: whether the metadata checks are run
        run_checks(success, req) == success /\ req.check_metadata
    IN
            /\ pc = "start"
            /\ LET fresh == [Frame EXCEPT !.errors = <<>>, !.warnings = <<>>]
                   failed == add_to_report(fresh, 209, 0, NoKw)
                   success == parse_success(inputs)
               IN  /\ ecsv' = IF inputs.parse = "ctor_raises" THEN EmptyCSV
                              ELSE [extcsv |-> inputs.extcsv, order |-> inputs.order,
                                    line_num |-> inputs.line_num]
                   /\ errors' = CASE inputs.parse = "ctor_raises" -> failed.errors
                                  [] inputs.parse = "validate_raises" -> inputs.lib_errors
                                  [] OTHER -> <<>>
                   /\ warnings' = IF inputs.parse = "ctor_raises" THEN failed.warnings
                                  ELSE inputs.lib_warnings
                   /\ self' = IF run_checks(success, inputs)
                              THEN load_record(inputs.extcsv)
                              ELSE [self EXCEPT !.success = success]
                   /\ pc' = IF run_checks(success, inputs) THEN "project" ELSE "return"
            /\ UNCHANGED <<inputs, registry, severe, ok, lookups, invoked, summary,
                           previous, search, metrics, threads>>

----------------------------------------------------------------------------
(* execute: the checks, in the order of lines 798-867 *)

Outcome(c) == IF c.exc # "" THEN c.exc
              ELSE IF c.success THEN "ok" ELSE "failed"

\* faulty variant: the station check is called before the contributor check
next_step_station_first(step) ==
    CASE step = "project" -> "dataset"
      [] step = "dataset" -> "content"
      [] step = "content" -> "station"
      [] step = "station" -> "contributor"
      [] step = "contributor" -> "deployment"
      [] step = "deployment" -> "instrument_name_model"
      [] step = "instrument_name_model" -> "instrument"
      [] step = "instrument" -> "location"
      [] step = "location" -> "data_generation"
      [] step = "data_generation" -> "time_series"
      [] step = "time_series" -> "return"

\* the statement of execute that follows each check's statement
next_step(step) ==
    CASE step = "project" -> "dataset"
      [] step = "dataset" -> "content"
      [] step = "content" -> "contributor"
      [] step = "contributor" -> "station"
      [] step = "station" -> "deployment"
      [] step = "deployment" -> "instrument_name_model"
      [] step = "instrument_name_model" -> "instrument"
      [] step = "instrument" -> "location"
      [] step = "location" -> "data_generation"
      [] step = "data_generation" -> "time_series"
      [] step = "time_series" -> "return"

\* A check method was called and returned (or raised).
Called(name, c, next) ==
    /\ self' = c.rec
    /\ errors' = c.errors
    /\ warnings' = c.warnings
    /\ lookups' = c.lookups
    /\ invoked' = Append(invoked, [check |-> name, result |-> Outcome(c)])
    /\ pc' = IF c.exc # "" THEN "raised" ELSE next

\* The branch of execute that only logs 'Skipping ...'.
Skipped(next) ==
    /\ pc' = next
    /\ UNCHANGED <<self, errors, warnings, lookups, invoked>>

Fixed == <<inputs, registry, severe, ecsv, summary, previous, search, metrics,
          threads>>

\* the conditions under which execute calls the gated checks
gate_contributor(flags) == flags.project_ok
\* faulty variant: the station result is left out of the condition
gate_deployment_no_station(flags) == flags.project_ok /\ flags.contributor_ok
gate_deployment(flags) ==
    flags.project_ok /\ flags.contributor_ok /\ flags.platform_ok
\* faulty variant: the contributor result is left out of the condition
gate_instrument_no_contributor(flags) ==
    flags.dataset_ok /\ flags.platform_ok /\ flags.instrument_model_ok
gate_instrument(flags) ==
    /\ flags.dataset_ok /\ flags.platform_ok
    /\ flags.contributor_ok /\ flags.instrument_model_ok
\* faulty variant: the call sits in the branch its log message belongs to
gate_location_on_failure(flags) == ~flags.instrument_ok
gate_location(flags) == flags.instrument_ok
\* faulty variant: the time series are checked whatever the mode
gate_time_series_always(req) == TRUE
gate_time_series(req) == ~req.metadata_only

StepProject ==
    /\ pc = "project"
    /\ LET c == check_project(Frame)
       IN  Called("project", c, next_step("project")) /\ ok' = [ok EXCEPT !.project_ok = c.success]
    /\ UNCHANGED Fixed

StepDataset ==
    /\ pc = "dataset"
    /\ LET c == check_dataset(Frame)
       IN  Called("dataset", c, next_step("dataset")) /\ ok' = [ok EXCEPT !.dataset_ok = c.success]
    /\ UNCHANGED Fixed

StepContent ==
    LET
        \* the condition under which execute calls check_content
        gate_content(flags) == flags.dataset_ok
    IN
            /\ pc = "content"
            /\ IF gate_content(ok)
               THEN Called("content", check_content(Frame), next_step("content"))
               ELSE Skipped(next_step("content"))
            /\ UNCHANGED <<Fixed, ok>>

StepContributor ==
    /\ pc = "contributor"
    /\ IF gate_contributor(ok)
       THEN LET c == check_contributor(Frame)
            IN  /\ Called("contributor", c, next_step("contributor"))
                /\ ok' = [ok EXCEPT !.contributor_ok = c.success]
       ELSE Skipped(next_step("contributor")) /\ ok' = [ok EXCEPT !.contributor_ok = FALSE]
    /\ UNCHANGED Fixed

StepStation ==
    /\ pc = "station"
    /\ LET c == check_station(Frame)
       IN  Called("station", c, next_step("station")) /\ ok' = [ok EXCEPT !.platform_ok = c.success]
    /\ UNCHANGED Fixed

StepDeployment ==
    /\ pc = "deployment"
    /\ IF gate_deployment(ok)
       THEN Called("deployment", check_deployment(Frame), next_step("deployment"))
       ELSE Skipped(next_step("deployment"))
    /\ UNCHANGED <<Fixed, ok>>

StepInstrumentNameModel ==
    /\ pc = "instrument_name_model"
    /\ LET c == check_instrument_name_and_model(Frame)
       IN  /\ Called("instrument_name_model", c, next_step("instrument_name_model"))
           /\ ok' = [ok EXCEPT !.instrument_model_ok = c.success]
    /\ UNCHANGED Fixed

StepInstrument ==
    /\ pc = "instrument"
    /\ IF gate_instrument(ok)
       THEN LET c == check_instrument(Frame)
            IN  /\ Called("instrument", c, next_step("instrument"))
                /\ ok' = [ok EXCEPT !.instrument_ok = c.success]
       ELSE Skipped(next_step("instrument")) /\ ok' = [ok EXCEPT !.instrument_ok = FALSE]
    /\ UNCHANGED Fixed

StepLocation ==
    /\ pc = "location"
    /\ IF gate_location(ok)
       THEN Called("location", check_location(Frame), next_step("location"))
       ELSE Skipped(next_step("location"))
    /\ UNCHANGED <<Fixed, ok>>

StepDataGeneration ==
    /\ pc = "data_generation"
    /\ Called("data_generation", check_data_generation(Frame), next_step("data_generation"))
    /\ UNCHANGED <<Fixed, ok>>

\* faulty variant: the flag set at line 758 is returned as it is
final_success_kept(errs) == TRUE

\* line 867: self.success = len(self.ecsv.errors) == 0
final_success(errs) == Len(errs) = 0

StepTimeSeries ==
    /\ pc = "time_series"
    /\ LET c == IF gate_time_series(inputs) THEN check_time_series(Frame)
                ELSE Frame
           done == [c EXCEPT !.rec.success = final_success(c.errors)]
       IN  IF gate_time_series(inputs)
           THEN Called("time_series", IF c.exc = "" THEN done ELSE c, next_step("time_series"))
           ELSE /\ self' = done.rec
                /\ pc' = next_step("time_series")
                /\ UNCHANGED <<errors, warnings, lookups, invoked>>
    /\ UNCHANGED <<Fixed, ok>>

\* lines 869-875
ReturnSummary ==
    /\ pc = "return"
    /\ summary' = [response |-> self.success, errors |-> errors,
                   warnings |-> warnings]
    /\ pc' = "done"
    /\ UNCHANGED <<inputs, registry, severe, ecsv, errors, warnings, self, ok,
                   lookups, invoked, previous, search, metrics, threads>>

Next ==
    \/ Parse
    \/ StepProject
    \/ StepDataset
    \/ StepContent
    \/ StepContributor
    \/ StepStation
    \/ StepDeployment
    \/ StepInstrumentNameModel
    \/ StepInstrument
    \/ StepLocation
    \/ StepDataGeneration
    \/ StepTimeSeries
    \/ ReturnSummary

----------------------------------------------------------------------------
(* The registry the runs are checked against *)

Doc(props) == [properties |-> props]
Copies(d, k) == [i \in 1..k |-> d]

Ref(ident, coordinates) ==
    [properties |-> [identifier |-> ident, name |-> "Brewer", model |-> "MKII"],
     geometry |-> [coordinates |-> coordinates]]

BaseRegistry ==
    LET
        Toronto == <<Flt(-794), Flt(437), Flt(1870)>>

        Polar == <<Flt(0), Flt(895), Flt(100)>>
    IN
            (IndexPrefix \o "project") :> <<Doc([identifier |-> "WOUDC"])>>
            @@ (IndexPrefix \o "dataset") :>
                <<Doc([identifier |-> "OzoneSonde"]), Doc([identifier |-> "Lidar"])>>
            @@ (IndexPrefix \o "discovery_metadata") :>
                <<Doc([identifier |-> "OzoneSonde",
                       levels |-> <<[label_en |-> "Level 1.0"]>>]),
                  Doc([identifier |-> "UmkehrN14_1.0",
                       levels |-> <<[label_en |-> "Level 1.0"]>>]),
                  Doc([identifier |-> "UmkehrN14_2.0",
                       levels |-> <<[label_en |-> "Level 2.0"]>>])>>
            @@ (IndexPrefix \o "contributor") :>
                (<<Doc([project |-> "WOUDC", acronym |-> "MSC"]),
                   Doc([project |-> "WOUDC", acronym |-> "ABC"])>>
                 \o Copies(Doc([project |-> "WOUDC", acronym |-> "DUP"]), MaxDup))
            @@ (IndexPrefix \o "station") :>
                (<<Doc([woudc_id |-> "065", type |-> "STN", name |-> "Toronto",
                        country_name_en |-> "Canada"]),
                   Doc([woudc_id |-> "066", type |-> "SHP", name |-> "Toronto",
                        country_name_en |-> "At Sea"]),
                   Doc([woudc_id |-> "005", type |-> "STN", name |-> "Toronto",
                        country_name_en |-> "Canada"])>>
                 \o Copies(Doc([woudc_id |-> "555", type |-> "STN", name |-> "Toronto",
                                country_name_en |-> "Canada"]), MaxDup))
            @@ (IndexPrefix \o "country") :>
                <<Doc([identifier |-> "CA", country_name_en |-> "Canada"]),
                  Doc([identifier |-> "US", country_name_en |-> "United States"]),
                  Doc([identifier |-> "XY", country_name_en |-> "At Sea"])>>
            @@ (IndexPrefix \o "deployment") :>
                <<Doc([identifier |-> "065:MSC:WOUDC"]),
                  Doc([identifier |-> "066:MSC:WOUDC"]),
                  Doc([identifier |-> "005:MSC:WOUDC"])>>
            @@ (IndexPrefix \o "instrument") :>
                <<Ref("Brewer:MKII:123:OzoneSonde:065:MSC:WOUDC", Toronto),
                  Ref("Brewer:MKII:123:OzoneSonde:066:MSC:WOUDC", Toronto),
                  Ref("Brewer:MKII:123:UmkehrN14_1.0:065:MSC:WOUDC", Toronto),
                  Ref("Brewer:MKII:UNKNOWN:OzoneSonde:065:MSC:WOUDC", Toronto),
                  Ref("Brewer:MKII:123:OzoneSonde:005:MSC:WOUDC", Polar)>>

----------------------------------------------------------------------------
(* The requests the runs are started with *)

\* Severities of the report library's codes.  The warnings are the
\* auto-corrections; 85 and 86 (unknown instrument name, model) are drawn
\* both ways.
Warnings == {53, 54, 57, 75, 82, 83}
Codes == {51, 52, 53, 54, 55, 56, 57, 58, 62, 63, 64, 65, 67, 70, 71, 72, 73,
          74, 75, 76, 77, 78, 79, 80, 81, 82, 83, 85, 86, 87, 88, 91, 92, 93,
          209}
Severities == {Codes \ Warnings, Codes \ (Warnings \cup {85, 86})}

GoodTables ==
    [CONTENT |-> [Class |-> Str("WOUDC"), Category |-> Str("OzoneSonde"),
                  Level |-> Flt(10), Form |-> IntV(1)],
     DATA_GENERATION |-> [Date |-> Date(5), Agency |-> Str("MSC"),
                          Version |-> Flt(10)],
     PLATFORM |-> [Type |-> Str("STN"), ID |-> Str("065"),
                   Country |-> Str("CA"), Name |-> Str("Toronto")],
     INSTRUMENT |-> [Name |-> Str("Brewer"), Model |-> Str("MKII"),
                     Number |-> Str("123")],
     LOCATION |-> [Latitude |-> Flt(437), Longitude |-> Flt(-794),
                   Height |-> Flt(1870)],
     TIMESTAMP |-> [Date |-> Date(3), Time |-> Time(6)],
     DAILY |-> [Date |-> List(<<Date(3), Date(4)>>),
                Time |-> List(<<Time(6), Time(7)>>)]]

GoodOrder == <<"CONTENT", "DATA_GENERATION", "PLATFORM", "INSTRUMENT",
               "LOCATION", "TIMESTAMP", "DAILY">>

\* The parser library raises from a validate stage only after it has recorded
\* an error, and records none when it does not raise.
library_errors(parse) ==
    IF parse = "validate_raises" THEN <<Diag(3, 1, NoKw)>> ELSE <<>>

Request(tables, order, parse, check_metadata, metadata_only) ==
    LET
        Lines == [CONTENT |-> 1, DATA_GENERATION |-> 4, PLATFORM |-> 7,
                  INSTRUMENT |-> 10, LOCATION |-> 13, TIMESTAMP |-> 16, DAILY |-> 19,
                  C_PROFILE |-> 24, TIMESTAMP_2 |-> 27]
    IN
            [extcsv |-> tables, order |-> order, line_num |-> Lines, parse |-> parse,
             check_metadata |-> check_metadata, metadata_only |-> metadata_only,
             lib_errors |-> library_errors(parse),
             lib_warnings |-> <<>>]

Checked(tables, order, metadata_only) ==
    Request(tables, order, "ok", TRUE, metadata_only)

RECURSIVE Repeat(_, _)
Repeat(s, k) == IF k = 0 THEN "" ELSE s \o Repeat(s, k - 1)

Requests ==
    LET
        \* Requests that stop at the parse stage or ask for no metadata checks.
        ParseRequests ==
            {[Request(GoodTables, GoodOrder, p, cm, FALSE) EXCEPT !.lib_warnings = w] :
                p \in {"ok", "ctor_raises", "validate_raises"}, cm \in BOOLEAN,
                w \in {<<>>, <<Diag(8, 2, NoKw)>>}}

        \* Requests that make every check pass, fail, be skipped or raise.
        PipelineRequests ==
            {Checked([GoodTables EXCEPT
                        !.CONTENT.Class = project, !.CONTENT.Category = dataset,
                        !.DATA_GENERATION.Agency = agency,
                        !.DATA_GENERATION.Version = version,
                        !.PLATFORM.Name = station_name,
                        !.INSTRUMENT.Name = instrument_name,
                        !.LOCATION.Latitude = latitude,
                        !.DAILY.Date = dates],
                     GoodOrder, metadata_only) :
                project \in {Str("WOUDC"), Str("BAD")},
                dataset \in {Str("OzoneSonde"), Str("Lidar"), Str("BAD")},
                agency \in {Str("MSC"), Str("ABC"), Str("BAD")},
                version \in {Flt(10), Str("abc"), None},
                station_name \in {Str("Toronto"), Str("Wrong")},
                instrument_name \in {Str("Brewer"), Str("BAD")},
                latitude \in {Flt(437), Flt(950)},
                dates \in {List(<<Date(3), Date(4)>>), List(<<Date(3), Date(9)>>)},
                metadata_only \in BOOLEAN}

        \* Requests that vary the #PLATFORM table.
        StationRequests ==
            LET
                StationIds == {Str(Repeat("5", k)) : k \in 0..MaxIdLen}
                                \cup {Str("065"), Str("066")}
            IN
                    {Checked([GoodTables EXCEPT
                                !.PLATFORM.ID = id, !.PLATFORM.Type = type,
                                !.PLATFORM.Country = country, !.PLATFORM.Name = name],
                             GoodOrder, FALSE) :
                        id \in StationIds,
                        type \in {Str("STN"), Str("SHP"), Str("XXX")},
                        country \in {None, Str(""), Str("IW"), Str("*IW"), Str("XZ"),
                                     Str("CA"), Str("US"), Str("XY"), Str("QQ")},
                        name \in {Str("Toronto"), Str("Wrong")}}

        \* Requests that vary the #CONTENT table and the presence of #C_PROFILE.
        ContentRequests ==
            LET
                WithProfile == GoodTables @@ [C_PROFILE |-> [Date |-> Date(3)]]
            IN
                    {Checked([tables EXCEPT
                                !.CONTENT.Category = dataset, !.CONTENT.Level = level,
                                !.CONTENT.Form = form],
                             IF tables = GoodTables THEN GoodOrder
                             ELSE Append(GoodOrder, "C_PROFILE"), FALSE) :
                        tables \in {GoodTables, WithProfile},
                        dataset \in {Str("UmkehrN14"), Str("OzoneSonde")},
                        level \in {Flt(10), Flt(20), Flt(30), IntV(1), IntV(2), Str("1"),
                                   Str("2.0"), Str(" 1.0"), Str("abc"), Str(""), None},
                        form \in {IntV(1), Str("1"), Str("x"), Flt(15), None}}

        \* Requests that vary the #LOCATION table on each platform.
        LocationRequests ==
            LET
                \* The platforms of the registry: a station, a ship and a polar station.
                Platforms ==
                    {[Type |-> Str("STN"), ID |-> Str("065"), Country |-> Str("CA"),
                      Name |-> Str("Toronto")],
                     [Type |-> Str("SHP"), ID |-> Str("066"), Country |-> Str("XY"),
                      Name |-> Str("Toronto")],
                     [Type |-> Str("STN"), ID |-> Str("005"), Country |-> Str("CA"),
                      Name |-> Str("Toronto")]}
            IN
                    {Checked([GoodTables EXCEPT
                                !.PLATFORM = platform, !.LOCATION.Latitude = latitude,
                                !.LOCATION.Longitude = longitude, !.LOCATION.Height = height],
                             GoodOrder, FALSE) :
                        platform \in Platforms,
                        latitude \in {Flt(437), Flt(447), Flt(448), Flt(427), Flt(426),
                                      Flt(900), Flt(-900), Flt(901), Flt(895), Flt(-895),
                                      Flt(885), Flt(890), Str("abc"), Str("43.7"), IntV(91),
                                      None},
                        longitude \in {Flt(-794), Flt(-784), Flt(-783), Flt(0), Flt(1800),
                                       Flt(1805), Str("x")},
                        height \in {Flt(1870), Flt(2370), Flt(2371), Flt(1370), Flt(100),
                                    Flt(0), Flt(60000), Str("h"), None}}

        \* Requests that vary the #DATA_GENERATION table.
        GenerationRequests ==
            {Checked([GoodTables EXCEPT
                        !.DATA_GENERATION.Date = date,
                        !.DATA_GENERATION.Version = version],
                     GoodOrder, metadata_only) :
                date \in {Date(5), None, Str("")},
                version \in {Flt(10), Flt(0), Flt(200), Flt(201), Flt(-1), Flt(15),
                             IntV(1), IntV(21), Str("1.0"), Str("1"), Str("abc"),
                             Str(""), None},
                metadata_only \in BOOLEAN}

        \* Requests that vary the Date and Time columns of the tables.
        TimeRequests ==
            LET
                WithSecondTimestamp ==
                    GoodTables @@ [TIMESTAMP_2 |-> [Date |-> Date(9), Time |-> Time(1)]]
            IN
                    {Checked([tables EXCEPT
                                !.DATA_GENERATION = IF generation_time
                                                    THEN [@ EXCEPT !.Date = dg_date]
                                                           @@ [Time |-> Time(1)]
                                                    ELSE [@ EXCEPT !.Date = dg_date],
                                !.TIMESTAMP.Date = ts_date, !.TIMESTAMP.Time = ts_time,
                                !.DAILY.Date = dates, !.DAILY.Time = times],
                             IF tables = GoodTables THEN GoodOrder
                             ELSE Append(GoodOrder, "TIMESTAMP_2"), FALSE) :
                        tables \in {GoodTables, WithSecondTimestamp},
                        generation_time \in BOOLEAN,
                        dg_date \in {Date(5), None, Str("2020"), IntV(5)},
                        ts_date \in {Date(3), Date(9)},
                        ts_time \in {Time(6), None, Str("t")},
                        dates \in {List(<<Date(3), Date(9)>>),
                                   List(<<Date(9), Str("x"), Date(5), None>>), Date(6)},
                        times \in {List(<<Time(6), Time(5)>>),
                                   List(<<Time(5), Str("t"), None, Time(4)>>), Time(2)}}

        \* Requests that vary the #INSTRUMENT table: present, placeholder and
        \* empty cells (an empty cell is read as None or as '').
        InstrumentRequests ==
            {Checked([GoodTables EXCEPT
                        !.INSTRUMENT.Name = name, !.INSTRUMENT.Model = model,
                        !.INSTRUMENT.Number = number,
                        !.CONTENT.Category = dataset, !.PLATFORM.ID = id],
                     GoodOrder, FALSE) :
                name \in {Str("Brewer"), Str("NA"), Str(""), None},
                model \in {Str("MKII"), Str("n/a"), IntV(2), None},
                number \in {Str("123"), IntV(123), Str("N/A"), Str(""), None},
                dataset \in {Str("OzoneSonde"), Str("UmkehrN14")},
                id \in {Str("065"), Str("5")}}
    IN
            ParseRequests \cup PipelineRequests \cup StationRequests
                \cup ContentRequests \cup LocationRequests
                \cup GenerationRequests \cup TimeRequests
                \cup InstrumentRequests

NoCall == [called |-> FALSE, pc |-> "start", errors |-> <<>>,
           warnings |-> <<>>, lookups |-> <<>>, invoked |-> <<>>,
           summary |-> [response |-> FALSE, errors |-> <<>>,
                        warnings |-> <<>>]]

\* no distinct-groups request is in progress
NoSearch == [pc |-> "idle"]

\* no MetricsProcessor has been constructed
NoMetrics == [pc |-> "absent"]

\* execute is called once, by one thread
NoThreads == [phase |-> "single"]

Init ==
    /\ pc = "start"
    /\ inputs \in Requests
    /\ registry = BaseRegistry
    /\ severe \in Severities
    /\ ecsv = EmptyCSV
    /\ errors = <<>>
    /\ warnings = <<>>
    /\ self = Unloaded
    /\ ok = [project_ok |-> FALSE, dataset_ok |-> FALSE,
             contributor_ok |-> FALSE, platform_ok |-> FALSE,
             instrument_model_ok |-> FALSE, instrument_ok |-> FALSE]
    /\ lookups = <<>>
    /\ invoked = <<>>
    /\ summary = [response |-> FALSE, errors |-> <<>>, warnings |-> <<>>]
    /\ previous = NoCall
    /\ search = NoSearch
    /\ metrics = NoMetrics
    /\ threads = NoThreads

Spec == Init /\ [][Next]_vars

\* The client whose call with the checks on and metadata_only unset has ended
\* (in a response or in an exception) sends the same file again with
\* metadata_only set.  execute starts afresh: line 758 and the assignments of
\* the result flags overwrite what the earlier call left.
Resubmit ==
    /\ pc \in {"done", "raised"}
    /\ ~previous.called
    /\ inputs.parse = "ok" /\ inputs.check_metadata
    /\ ~inputs.metadata_only
    /\ previous' = [called |-> TRUE, pc |-> pc, errors |-> errors,
                    warnings |-> warnings, lookups |-> lookups,
                    invoked |-> invoked, summary |-> summary]
    /\ inputs' = [inputs EXCEPT !.metadata_only = TRUE]
    /\ pc' = "start"
    /\ errors' = <<>>
    /\ warnings' = <<>>
    /\ lookups' = <<>>
    /\ invoked' = <<>>
    /\ ok' = [f \in DOMAIN ok |-> FALSE]
    /\ summary' = [response |-> FALSE, errors |-> <<>>, warnings |-> <<>>]
    /\ UNCHANGED <<registry, severe, ecsv, self, search, metrics, threads>>

NextResubmit == Next \/ Resubmit

SpecResubmit == Init /\ [][NextResubmit]_vars

----------------------------------------------------------------------------
(* plugins/distinct.py: wrap_query *)

\* Largest number of documents in the searched index.
MaxDocs == 3

\* Python dicts are functions from keys to values; {k: v} is k :> v.

\* faulty variant: the first field of the list is wrapped first, so it ends
\* up innermost
RECURSIVE wrap_query_reversed(_, _)
wrap_query_reversed(query, props) ==
    IF Len(props) = 0 THEN query
    ELSE LET field_name == props[1]
             wrapped ==
                 ("distinct_" \o field_name) :>
                     [terms |-> [size |-> 10000,
                                 field |-> "properties." \o field_name
                                             \o ".raw",
                                 order |-> ("_key" :> "asc")],
                      aggregations |-> query]
         IN  wrap_query_reversed(wrapped, Tail(props))

RECURSIVE wrap_query(_, _)
wrap_query(query, props) ==
    IF Len(props) = 0 THEN query
    ELSE LET field_name == props[Len(props)]
             field_full == "properties." \o field_name \o ".raw"
             remaining_fields == SubSeq(props, 1, Len(props) - 1)
             wrapped ==
                 ("distinct_" \o field_name) :>
                     [terms |-> [size |-> 10000, field |-> field_full,
                                 order |-> ("_key" :> "asc")],
                      aggregations |-> query]
         IN  wrap_query(wrapped, remaining_fields)

----------------------------------------------------------------------------
(* The searched index and Elasticsearch's evaluation of an aggregation:
   terms is a group-by with buckets in ascending key order, top_hits returns
   one document of the bucket, min and max range over the documents that have
   the field. *)

\* the keyword values of the documents, in ascending order
KeyOrder == <<"2001", "2002", "2003", "Alert", "OzoneSonde", "Toronto",
              "TotalOzone", "u1", "u2">>
Rank(k) == CHOOSE i \in 1..Len(KeyOrder) : KeyOrder[i] = k

\* the documents an index may hold: every document has a start_date, the
\* end_date is missing while the record is open; the last one has no
\* station_name
AllDocs ==
    LET
        Document(id, data_class, station_name, rest) ==
            [id |-> Str(id), type |-> Str("Feature"), geometry |-> Str("Point"),
             properties |-> [data_class |-> Str(data_class),
                             station_name |-> Str(station_name)] @@ rest]

        Fresh == [waf_url |-> Str("u1"), start_date |-> Str("2001"),
                  end_date |-> Str("2003")]

        Running == [waf_url |-> Str("u2"), start_date |-> Str("2002")]
    IN
            <<Document("d1", "OzoneSonde", "Alert", Fresh),
              Document("d2", "OzoneSonde", "Alert", Running),
              Document("d3", "OzoneSonde", "Toronto", Fresh),
              Document("d4", "OzoneSonde", "Toronto", Running),
              Document("d5", "TotalOzone", "Alert", Fresh),
              Document("d6", "TotalOzone", "Alert", Running),
              Document("d7", "TotalOzone", "Toronto", Fresh),
              Document("d8", "TotalOzone", "Toronto", Running),
              [id |-> Str("d9"), type |-> Str("Feature"), geometry |-> Str("Point"),
               properties |-> [data_class |-> Str("TotalOzone")] @@ Running]>>

Having(ds, f) == {i \in ds : f \in DOMAIN AllDocs[i].properties}
Keys(ds, f) == {AllDocs[i].properties[f].s : i \in Having(ds, f)}

\* _source filtering: only the listed paths of the document are returned
FilterSource(doc, top_hits) ==
    IF "_source" \notin DOMAIN top_hits THEN doc
    ELSE LET includes == Range(top_hits["_source"].includes)
             kept == {f \in DOMAIN doc.properties :
                         ("properties." \o f) \in includes}
             top == {k \in DOMAIN doc : k \in includes}
                      \cup (IF kept = {} THEN {} ELSE {"properties"})
         IN  [k \in top |->
                IF k = "properties"
                THEN [f \in kept |-> doc.properties[f]]
                ELSE doc[k]]

\* the document top_hits returns of a bucket: which one is not specified
TopHits(ds, top_hits, pick) ==
    IF ds = {} THEN <<>>
    ELSE LET i == IF pick = "first"
                  THEN CHOOSE m \in ds : \A o \in ds : m <= o
                  ELSE CHOOSE m \in ds : \A o \in ds : m >= o
         IN  <<("_source" :> FilterSource(AllDocs[i], top_hits))>>

Metric(ds, f, least) ==
    LET
        Least(S) == CHOOSE k \in S : \A o \in S : Rank(k) <= Rank(o)

        Greatest(S) == CHOOSE k \in S : \A o \in S : Rank(k) >= Rank(o)
    IN
            IF Keys(ds, f) = {} THEN [value |-> None]
            ELSE LET v == IF least THEN Least(Keys(ds, f)) ELSE Greatest(Keys(ds, f))
                 IN  [value |-> Str(v), value_as_string |-> Str(v)]

RECURSIVE Aggregate(_, _, _)
Aggregate(aggs, ds, pick) ==
    LET
        \* 'properties.<name>.raw' -> <name>
        TermsField(field_full) == SubSeq(field_full, 12, Len(field_full) - 4)

        \* 'properties.<name>' -> <name>
        MetricField(field_full) == SubSeq(field_full, 12, Len(field_full))

        Sorted(S) == LET Test(k) == k \in S IN SelectSeq(KeyOrder, Test)
    IN
            [name \in DOMAIN aggs |->
                LET a == aggs[name]
                IN  IF "terms" \in DOMAIN a
                    THEN LET f == TermsField(a.terms.field)
                             keys == Sorted(Keys(ds, f))
                         IN  [buckets |->
                                [n \in 1..Len(keys) |->
                                    LET members ==
                                          {i \in Having(ds, f) :
                                              AllDocs[i].properties[f].s = keys[n]}
                                    IN  [key |-> Str(keys[n]),
                                         doc_count |-> Cardinality(members)]
                                          @@ Aggregate(a.aggregations, members, pick)]]
                    ELSE IF "top_hits" \in DOMAIN a
                    THEN [hits |-> [hits |-> TopHits(ds, a.top_hits, pick)]]
                    ELSE IF "global" \in DOMAIN a
                    THEN [doc_count |-> Cardinality(ds)]
                           @@ Aggregate(a.aggregations, ds, pick)
                    ELSE IF "min" \in DOMAIN a
                    THEN Metric(ds, MetricField(a.min.field), TRUE)
                    ELSE Metric(ds, MetricField(a.max.field), FALSE)]

----------------------------------------------------------------------------
(* plugins/distinct.py: unwrap_query *)

\* what a call ends in: the list it returns, or the exception it raises
Rows(rows) == [exc |-> "", rows |-> rows]
Raised(e) == [exc |-> e, rows |-> <<>>]

\* lines 190-209: the base case
unwrap_leaf(response) ==
    IF "example" \notin DOMAIN response THEN Raised("KeyError")
    ELSE LET hits == response["example"].hits.hits
         IN  IF Len(hits) = 0 THEN Raised("IndexError")
             ELSE
             LET source == hits[1]["_source"]
                 has_start == "start_date" \in DOMAIN response
                 has_end == "end_date" \in DOMAIN response
                 end_date == IF response["end_date"].value = None THEN None
                             ELSE response["end_date"].value_as_string
             IN  IF "properties" \notin DOMAIN source
                 THEN Raised("KeyError")
                 ELSE IF has_start /\ "value_as_string"
                            \notin DOMAIN response["start_date"]
                 THEN Raised("KeyError")
                 ELSE
                 LET p1 == IF has_start
                           THEN ("start_date" :>
                                   response["start_date"].value_as_string)
                                  @@ source.properties
                           ELSE source.properties
                     p2 == IF has_end THEN ("end_date" :> end_date) @@ p1
                           ELSE p1
                 IN  Rows(<<[k \in DOMAIN source \ {"id", "type"} |->
                               IF k = "properties" THEN p2 ELSE source[k]]>>)

\* subgroup['properties'][field_name] = field_value
stamp(subprops, field_name, field_value) ==
    [j \in 1..Len(subprops) |->
        [subprops[j] EXCEPT
            !.properties = (field_name :> field_value) @@ @]]

RECURSIVE unwrap_query(_, _)
RECURSIVE unwrap_buckets(_, _, _, _)
RECURSIVE unwrap_buckets_first(_, _, _, _)

\* faulty variant: only the first subgroup of each bucket is kept
unwrap_buckets_first(collections, n, field_name, remaining_props) ==
    IF n > Len(collections) THEN Rows(<<>>)
    ELSE LET subcollection == collections[n]
             sub == unwrap_query(subcollection, remaining_props)
             rest == unwrap_buckets_first(collections, n + 1, field_name,
                                          remaining_props)
             kept == IF Len(sub.rows) = 0 THEN <<>> ELSE <<sub.rows[1]>>
         IN  IF sub.exc # "" THEN sub
             ELSE IF rest.exc # "" THEN rest
             ELSE Rows(stamp(kept, field_name, subcollection.key)
                         \o rest.rows)

\* lines 216-227: the loop over the buckets, from the n-th bucket on
unwrap_buckets(collections, n, field_name, remaining_props) ==
    IF n > Len(collections) THEN Rows(<<>>)
    ELSE LET subcollection == collections[n]
             sub == unwrap_query(subcollection, remaining_props)
             rest == unwrap_buckets(collections, n + 1, field_name,
                                    remaining_props)
         IN  IF sub.exc # "" THEN sub
             ELSE IF rest.exc # "" THEN rest
             ELSE Rows(stamp(sub.rows, field_name, subcollection.key)
                         \o rest.rows)

unwrap_query(response, props) ==
    IF Len(props) = 0 THEN unwrap_leaf(response)
    ELSE LET field_name == props[1]
             aggregation_name == "distinct_" \o field_name
             remaining_props == Tail(props)
         IN  IF aggregation_name \notin DOMAIN response
             THEN Raised("KeyError")
             ELSE unwrap_buckets(response[aggregation_name].buckets, 1,
                                 field_name, remaining_props)

----------------------------------------------------------------------------
(* A distinct-groups request: the query is wrapped, searched and unwrapped *)

Dated ==
    [example |-> [top_hits |-> [size |-> 1]],
     start_date |-> [min |-> [field |-> "properties.start_date"]],
     end_date |-> [max |-> [field |-> "properties.end_date"]]]

SearchRequests ==
    LET
        \* the field lists of up to three names, repeated names included
        PropLists ==
            LET
                GroupFields == {"data_class", "station_name", "waf_url"}
            IN
                             UNION {[1..n -> GroupFields] : n \in 0..3}

        \* leaf queries: one representative document, alone or with the date range
        Example == [example |-> [top_hits |-> [size |-> 1]]]
    IN
            {[pc |-> "start", props |-> props, leaf |-> leaf, docs |-> docs,
              pick |-> pick, query |-> <<>>, response |-> <<>>,
              result |-> Rows(<<>>)] :
                props \in PropLists, leaf \in {Example, Dated},
                docs \in {ds \in SUBSET (1..Len(AllDocs)) :
                             Cardinality(ds) <= MaxDocs},
                pick \in {"first", "last"}}

validate_vars == <<pc, inputs, registry, severe, ecsv, errors, warnings,
                   self, ok, lookups, invoked, summary, previous, metrics,
                   threads>>

WrapQuery ==
    /\ search.pc = "start"
    /\ search' = [search EXCEPT
                     !.pc = "wrapped",
                     !.query = wrap_query(search.leaf, search.props)]
    /\ UNCHANGED validate_vars

RunSearch ==
    /\ search.pc = "wrapped"
    /\ search' = [search EXCEPT
                     !.pc = "searched",
                     !.response = Aggregate(search.query, search.docs,
                                            search.pick)]
    /\ UNCHANGED validate_vars

UnwrapResponse ==
    /\ search.pc = "searched"
    /\ search' = [search EXCEPT
                     !.pc = "done",
                     !.result = unwrap_query(search.response, search.props)]
    /\ UNCHANGED validate_vars

NextDistinct == WrapQuery \/ RunSearch \/ UnwrapResponse

InitDistinct ==
    /\ pc = "idle"
    /\ inputs = Checked(GoodTables, GoodOrder, FALSE)
    /\ registry = BaseRegistry
    /\ severe = Codes \ Warnings
    /\ ecsv = EmptyCSV
    /\ errors = <<>>
    /\ warnings = <<>>
    /\ self = Unloaded
    /\ ok = [project_ok |-> FALSE, dataset_ok |-> FALSE,
             contributor_ok |-> FALSE, platform_ok |-> FALSE,
             instrument_model_ok |-> FALSE, instrument_ok |-> FALSE]
    /\ lookups = <<>>
    /\ invoked = <<>>
    /\ summary = [response |-> FALSE, errors |-> <<>>, warnings |-> <<>>]
    /\ previous = NoCall
    /\ search \in SearchRequests
    /\ metrics = NoMetrics
    /\ threads = NoThreads

SpecDistinct == InitDistinct /\ [][NextDistinct]_vars

----------------------------------------------------------------------------
(* plugins/distinct.py: build_query and GroupSearchProcessor.execute *)

\* Largest number of groups a request names.
MaxGroups == 2

\* inputs.get('source', None): the caller's list, or no list at all
NoSource == [given |-> FALSE, list |-> <<>>]
Source(list) == [given |-> TRUE, list |-> list]

\* The call returns the query and leaves the caller's list as source_props.
build_query(distinct_props, source_props) ==
    LET \* list.remove(x): the first occurrence goes
        remove(l, x) ==
            LET k == CHOOSE i \in 1..Len(l) :
                        l[i] = x /\ \A j \in 1..(i - 1) : l[j] # x
            IN  SubSeq(l, 1, k - 1) \o SubSeq(l, k + 1, Len(l))
        has(l, x) == \E i \in 1..Len(l) : l[i] = x
        l0 == source_props.list
        with_start == has(l0, "start_date")
        l1 == IF with_start THEN remove(l0, "start_date") ELSE l0
        with_end == has(l1, "end_date")
        l2 == IF with_end THEN remove(l1, "end_date") ELSE l1
        includes == [i \in 1..Len(l2) |-> "properties." \o l2[i]]
                      \o <<"geometry">>
        example ==
            IF source_props.given
            THEN [example |-> [top_hits |->
                    [size |-> 1, _source |-> [includes |-> includes]]]]
            ELSE [example |-> [top_hits |-> [size |-> 1]]]
        start_date ==
            IF source_props.given /\ with_start
            THEN [start_date |-> [min |-> [field |-> "properties.start_date"]]]
            ELSE <<>>
        end_date ==
            IF source_props.given /\ with_end
            THEN [end_date |-> [max |-> [field |-> "properties.end_date"]]]
            ELSE <<>>
        query_core == example @@ start_date @@ end_date
    IN  [query |-> wrap_query(query_core, distinct_props),
         source_props |-> IF source_props.given THEN Source(l2)
                          ELSE source_props]

\* the requests: 'distinct' is a list, or a mapping of up to MaxGroups names
\* to lists; 'source' is absent or a list
GroupRequests ==
    LET defs == {<<>>, <<"data_class">>, <<"station_name", "data_class">>}
        names == [i \in 1..MaxGroups |-> "group" \o NatStr(i)]
        sources == {NoSource, Source(<<>>), Source(<<"waf_url">>),
                    Source(<<"waf_url", "start_date">>),
                    Source(<<"end_date", "waf_url", "start_date">>),
                    Source(<<"start_date", "end_date">>)}
        lists == {[kind |-> "list", groups |-> <<[name |-> "", props |-> d]>>] :
                     d \in defs}
        mappings ==
            UNION {{[kind |-> "mapping",
                     groups |-> [i \in 1..n |->
                                  [name |-> names[i], props |-> f[i]]]] :
                        f \in [1..n -> defs]} : n \in 1..MaxGroups}
        held == {1, 2, 5, 9}
    IN  {[pc |-> "begin", kind |-> d.kind, groups |-> d.groups,
          given |-> source, source |-> source, built |-> <<>>,
          docs |-> docs, pick |-> pick, response |-> <<>>,
          result |-> [exc |-> "", flattened |-> <<>>]] :
            d \in lists \cup mappings, source \in sources,
            docs \in {ds \in SUBSET held : Cardinality(ds) <= MaxDocs},
            pick \in {"first", "last"}}

\* one call of build_query: the only one of a list request, the next group's
\* of a mapping request
BuildQuery ==
    /\ search.pc = "begin"
    /\ Len(search.built) < Len(search.groups)
    /\ LET group_def == search.groups[Len(search.built) + 1].props
           call == build_query(group_def, search.source)
       IN  search' = [search EXCEPT
                        !.built = Append(@, [query |-> call.query,
                                             before |-> search.source,
                                             after |-> call.source_props]),
                        !.source = call.source_props]
    /\ UNCHANGED validate_vars

\* self.es.search(index=index, body=query)
SearchGroups ==
    /\ search.pc = "begin"
    /\ Len(search.built) = Len(search.groups)
    /\ LET n == Len(search.groups)
           names == {search.groups[i].name : i \in 1..n}
           at(name) == CHOOSE i \in 1..n : search.groups[i].name = name
           aggregations ==
               IF search.kind = "list" THEN search.built[1].query
               ELSE [name \in names |->
                       [global |-> <<>>,
                        aggregations |-> search.built[at(name)].query]]
       IN  search' = [search EXCEPT
                        !.pc = "searched",
                        !.response = [aggregations |->
                                        Aggregate(aggregations, search.docs,
                                                  search.pick)]]
    /\ UNCHANGED validate_vars

\* unwrap_query on the response body of the list, or of every group in turn
UnwrapGroups ==
    /\ search.pc = "searched"
    /\ LET n == Len(search.groups)
           body(i) == IF search.kind = "list"
                      THEN search.response.aggregations
                      ELSE search.response.aggregations[search.groups[i].name]
           flat(i) == unwrap_query(body(i), search.groups[i].props)
           failed == {i \in 1..n : flat(i).exc # ""}
           first == CHOOSE i \in failed : \A j \in failed : i <= j
       IN  search' = [search EXCEPT
                        !.pc = "returned",
                        !.result =
                            IF failed # {}
                            THEN [exc |-> flat(first).exc, flattened |-> <<>>]
                            ELSE [exc |-> "",
                                  flattened |-> [i \in 1..n |-> flat(i).rows]]]
    /\ UNCHANGED validate_vars

NextGroups == BuildQuery \/ SearchGroups \/ UnwrapGroups

InitGroups ==
    /\ pc = "idle"
    /\ inputs = Checked(GoodTables, GoodOrder, FALSE)
    /\ registry = BaseRegistry
    /\ severe = Codes \ Warnings
    /\ ecsv = EmptyCSV
    /\ errors = <<>>
    /\ warnings = <<>>
    /\ self = Unloaded
    /\ ok = [project_ok |-> FALSE, dataset_ok |-> FALSE,
             contributor_ok |-> FALSE, platform_ok |-> FALSE,
             instrument_model_ok |-> FALSE, instrument_ok |-> FALSE]
    /\ lookups = <<>>
    /\ invoked = <<>>
    /\ summary = [response |-> FALSE, errors |-> <<>>, warnings |-> <<>>]
    /\ previous = NoCall
    /\ search \in GroupRequests
    /\ metrics = NoMetrics
    /\ threads = NoThreads

SpecGroups == InitGroups /\ [][NextGroups]_vars

----------------------------------------------------------------------------
(* plugins/metrics.py: MetricsProcessor.  The object keeps self.index between
   requests; the response of a search is converted to rows and returned, and
   nothing of it is kept on the object. *)

\* Most requests one MetricsProcessor object handles.
MaxRequests == 2

\* lines 243-246: the dataset values that are served from the peer index
PeerDatasets ==
    {"peer_data_records", "ndacc_total", "ndacc_uv", "ndacc_vertical"}

\* request bodies: domain and timescale are required, the filters optional
\* (None: the key is absent)
MetricsRequests ==
    LET domains == {"dataset", "contributor"}
        datasets == {None} \cup {Str(d) : d \in PeerDatasets \cup {"TotalOzone"}}
        plain == {[domain |-> d, timescale |-> "year", dataset |-> ds,
                   source |-> None, country |-> None] :
                     d \in domains, ds \in datasets}
        filtered == {[domain |-> d, timescale |-> "month", dataset |-> ds,
                      source |-> s, country |-> c] :
                        d \in domains,
                        ds \in {Str("ndacc_uv"), Str("TotalOzone")},
                        s \in {None, Str("ndacc")}, c \in {None, Str("CAN")}}
    IN  plain \cup filtered

\* lines 295-378 and 422-502: the search either metrics method sends
metrics_search(req, peer_records, peer_country, index) ==
    LET term(key, v) == IF v = None THEN <<>>
                        ELSE <<[key |-> key, value |-> v.s]>>
        when(cond, key, value) ==
            IF cond THEN <<[key |-> key, value |-> value]>> ELSE <<>>
        ds == IF req.dataset = None THEN "" ELSE req.dataset.s
        measurement == "properties.measurement.raw"
        filters ==
            IF peer_records
            THEN when(ds = "ndacc_total", measurement, "TOTALCOL")
                 \o when(ds = "ndacc_uv", measurement, "UV")
                 \o when(ds = "ndacc_vertical", measurement, "OZONE")
                 \o when(ds \in {"ndacc_total", "ndacc_uv", "ndacc_vertical"},
                         "properties.source.raw", "ndacc")
                 \o term("properties.source.raw", req.source)
                 \o term(peer_country, req.country)
            ELSE term("properties.content_category.raw", req.dataset)
                 \o term("properties.platform_country.raw", req.country)
    IN  [index |-> index,
         inputs |-> req,
         must |-> filters,
         name |-> req.timescale \o "ly",
         field |-> IF peer_records THEN "properties.start_datetime"
                   ELSE "properties.timestamp_date",
         calendar_interval |-> IF req.timescale = "year" THEN "1y" ELSE "1M",
         format |-> IF req.timescale = "year" THEN "yyyy" ELSE "yyyy-MM"]

\* execute, lines 240-254, up to the call of the metrics method
MetricsExecute ==
    LET
        \* lines 243-249: the index execute leaves in self.index
        peer_index(index, peer_records) ==
            IF peer_records THEN IndexPrefix \o "peer_data_record" ELSE index
    IN
            /\ metrics.pc = "idle"
            /\ Len(metrics.searches) < MaxRequests
            /\ \E req \in MetricsRequests :
                  LET peer_records == /\ req.dataset # None
                                      /\ req.dataset.s \in PeerDatasets
                  IN  metrics' = [metrics EXCEPT
                                    !.index = peer_index(@, peer_records),
                                    !.peer_records = peer_records,
                                    !.inputs = req,
                                    !.pc = req.domain]
            /\ UNCHANGED <<pc, inputs, registry, severe, ecsv, errors, warnings,
                           self, ok, lookups, invoked, summary, previous, search,
                           threads>>

\* metrics_dataset, lines 272-398
MetricsDataset ==
    /\ metrics.pc = "dataset"
    /\ metrics' = [metrics EXCEPT
                     !.searches = Append(@, metrics_search(
                                      metrics.inputs, metrics.peer_records,
                                      "properties.platform_country.raw",
                                      metrics.index)),
                     !.pc = "idle"]
    /\ UNCHANGED <<pc, inputs, registry, severe, ecsv, errors, warnings,
                   self, ok, lookups, invoked, summary, previous, search,
                   threads>>

\* metrics_contributor, lines 400-522
MetricsContributor ==
    /\ metrics.pc = "contributor"
    /\ metrics' = [metrics EXCEPT
                     !.searches = Append(@, metrics_search(
                                      metrics.inputs, metrics.peer_records,
                                      "properties.country_id.raw",
                                      metrics.index)),
                     !.pc = "idle"]
    /\ UNCHANGED <<pc, inputs, registry, severe, ecsv, errors, warnings,
                   self, ok, lookups, invoked, summary, previous, search,
                   threads>>

NextMetrics == MetricsExecute \/ MetricsDataset \/ MetricsContributor

InitMetrics ==
    LET
        \* the object __init__ returns
        Constructed ==
            [pc |-> "idle", index |-> IndexPrefix \o "data_record",
             inputs |-> None, peer_records |-> FALSE, searches |-> <<>>]
    IN
            /\ pc = "idle"
            /\ inputs = Checked(GoodTables, GoodOrder, FALSE)
            /\ registry = BaseRegistry
            /\ severe = Codes \ Warnings
            /\ ecsv = EmptyCSV
            /\ errors = <<>>
            /\ warnings = <<>>
            /\ self = Unloaded
            /\ ok = [project_ok |-> FALSE, dataset_ok |-> FALSE,
                     contributor_ok |-> FALSE, platform_ok |-> FALSE,
                     instrument_model_ok |-> FALSE, instrument_ok |-> FALSE]
            /\ lookups = <<>>
            /\ invoked = <<>>
            /\ summary = [response |-> FALSE, errors |-> <<>>, warnings |-> <<>>]
            /\ previous = NoCall
            /\ search = NoSearch
            /\ threads = NoThreads
            /\ metrics = Constructed

SpecMetrics == InitMetrics /\ [][NextMetrics]_vars

----------------------------------------------------------------------------
(* plugins/validate.py: execute calls that overlap on one processor object.
   execute keeps the parsed file, its report and the record fields on self
   (lines 758-796) and its result flags and return value in locals; a thread
   switch between two statements of execute exchanges the locals and leaves
   self as it is.  Each submission is first validated alone, on an object of
   its own, so that its report can be compared. *)

\* Most thread switches while the two calls overlap.
MaxSwitches == 2

\* the locals of a call that has not started
Entered(req) ==
    [pc |-> "start", inputs |-> req,
     ok |-> [project_ok |-> FALSE, dataset_ok |-> FALSE,
             contributor_ok |-> FALSE, platform_ok |-> FALSE,
             instrument_model_ok |-> FALSE, instrument_ok |-> FALSE],
     summary |-> [response |-> FALSE, errors |-> <<>>, warnings |-> <<>>]]

\* a submission has been validated alone: keep what the call ended in, and
\* start the next call on a fresh object (the two calls that overlap share one)
FinishAlone ==
    /\ threads.phase = "alone"
    /\ pc \in {"done", "raised"}
    /\ LET first == Len(threads.alone) = 0
           next == Entered(threads.submissions[IF first THEN 2 ELSE 1])
       IN  /\ threads' = [threads EXCEPT
                            !.alone = Append(@, [pc |-> pc,
                                                 summary |-> summary]),
                            !.phase = IF first THEN "alone" ELSE "overlap"]
           /\ pc' = next.pc
           /\ inputs' = next.inputs
           /\ ok' = next.ok
           /\ summary' = next.summary
    /\ ecsv' = EmptyCSV
    /\ errors' = <<>>
    /\ warnings' = <<>>
    /\ self' = Unloaded
    /\ lookups' = <<>>
    /\ invoked' = <<>>
    /\ UNCHANGED <<registry, severe, previous, search, metrics>>

\* the interpreter hands the processor to the other call between two
\* statements of execute
Switch ==
    /\ threads.phase = "overlap"
    /\ threads.switches < MaxSwitches
    /\ threads.waiting.pc \notin {"done", "raised"}
    /\ pc' = threads.waiting.pc
    /\ inputs' = threads.waiting.inputs
    /\ ok' = threads.waiting.ok
    /\ summary' = threads.waiting.summary
    /\ threads' = [threads EXCEPT
                     !.waiting = [pc |-> pc, inputs |-> inputs, ok |-> ok,
                                  summary |-> summary],
                     !.switches = @ + 1,
                     !.midrun = @ \/ pc \notin {"start", "done", "raised"}]
    /\ UNCHANGED <<registry, severe, ecsv, errors, warnings, self, lookups,
                   invoked, previous, search, metrics>>

NextOverlap == Next \/ FinishAlone \/ Switch

InitOverlap ==
    LET submissions ==
            {Checked(GoodTables, GoodOrder, FALSE),
             Checked([GoodTables EXCEPT !.PLATFORM.Name = Str("Wrong")],
                     GoodOrder, FALSE),
             Checked([GoodTables EXCEPT !.LOCATION.Latitude = Flt(901)],
                     GoodOrder, FALSE),
             Request(GoodTables, GoodOrder, "validate_raises", TRUE, FALSE)}
        pairs == {p \in submissions \X submissions : p[1] # p[2]}
    IN  /\ threads \in {[phase |-> "alone", submissions |-> p,
                         alone |-> <<>>, waiting |-> Entered(p[2]),
                         switches |-> 0, midrun |-> FALSE] : p \in pairs}
        /\ pc = "start"
        /\ inputs = threads.submissions[1]
        /\ registry = BaseRegistry
        /\ severe = Codes \ Warnings
        /\ ecsv = EmptyCSV
        /\ errors = <<>>
        /\ warnings = <<>>
        /\ self = Unloaded
        /\ ok = Entered(inputs).ok
        /\ lookups = <<>>
        /\ invoked = <<>>
        /\ summary = Entered(inputs).summary
        /\ previous = NoCall
        /\ search = NoSearch
        /\ metrics = NoMetrics

SpecOverlap == InitOverlap /\ [][NextOverlap]_vars

----------------------------------------------------------------------------
(* Vocabulary of the properties *)

CheckOrder == <<"project", "dataset", "content", "contributor", "station",
                "deployment", "instrument_name_model", "instrument",
                "location", "data_generation", "time_series">>

Position(name) == CHOOSE i \in 1..Len(CheckOrder) : CheckOrder[i] = name

\* The check that appends each code (0: the parse stage).
Owner(code) ==
    CASE code = 51 -> 1
      [] code = 52 -> 2
      [] code \in {53, 54, 55, 56, 57, 58} -> 3
      [] code = 67 -> 4
      [] code \in {70, 71, 72, 73, 74, 75} -> 5
      [] code = 88 -> 6
      [] code \in {82, 83, 85, 86} -> 7
      [] code = 87 -> 8
      [] code \in {76, 77, 78, 79, 80, 81} -> 9
      [] code \in {62, 63, 64, 65} -> 10
      [] code \in {91, 92, 93} -> 11
      [] OTHER -> 0

Ran(name) == \E i \in 1..Len(invoked) : invoked[i].check = name

\* "ok", "failed", the exception raised, or "skipped" when the check was not
\* invoked
Result(name) ==
    IF Ran(name)
    THEN invoked[CHOOSE i \in 1..Len(invoked) : invoked[i].check = name].result
    ELSE "skipped"

\* execute has gone past the statement of the named check (when a check
\* raised, the statements after it were never reached)
Past(name) ==
    \/ pc \in {"return", "done"}
    \/ pc = "raised"
          /\ Position(invoked[Len(invoked)].check) >= Position(name)
    \/ \E i \in 1..Len(CheckOrder) :
          pc = CheckOrder[i] /\ i > Position(name)

ErrorCodes == {errors[i].code : i \in 1..Len(errors)}
WarningCodes == {warnings[i].code : i \in 1..Len(warnings)}
ReportCodes == ErrorCodes \cup WarningCodes

LookedUp(index) ==
    \E i \in 1..Len(lookups) : lookups[i].index = IndexPrefix \o index

IsPrefix(a, b) == Len(a) <= Len(b) /\ SubSeq(b, 1, Len(a)) = a

Submitted == inputs.extcsv

----------------------------------------------------------------------------
(* C1: whenever execute returns, the response flag is true exactly when the
   returned error list is empty, whatever the warnings and whatever checks
   were skipped. *)
C1_ResponseIffNoErrors ==
    pc = "done" => (summary.response <=> summary.errors = <<>>)

\* a passing run that ran all eleven checks and carries warnings
C1_Witness ==
    /\ pc = "done" /\ summary.response
    /\ summary.warnings # <<>>
    /\ Len(invoked) = Len(CheckOrder)

(* C2: when constructing the ExtendedCSV raises, the report holds exactly one
   diagnostic, code 209, the response is false, no check is invoked and no
   registry lookup is issued. *)
C2_ParseFailureShortCircuits ==
    (inputs.parse = "ctor_raises" /\ pc # "start") =>
        /\ Len(errors) + Len(warnings) = 1
        /\ ReportCodes = {209}
        /\ invoked = <<>>
        /\ lookups = <<>>
        /\ ~self.success
        /\ pc = "done" => ~summary.response

\* a request that asked for the metadata checks and failed to parse
C2_Witness ==
    pc = "done" /\ inputs.parse = "ctor_raises" /\ inputs.check_metadata

(* C3 (as claimed): a run on a parsed submission never ends in an uncaught
   exception; in particular not for a non-numeric version text or a dataset
   without discovery metadata. *)
C3_NamedCase ==
    \/ /\ "Version" \in DOMAIN Submitted.DATA_GENERATION
       /\ Submitted.DATA_GENERATION.Version.t = "str"
       /\ ~FloatText(Submitted.DATA_GENERATION.Version.s)
    \/ /\ Result("dataset") = "ok"
       /\ Len(query_by_field("discovery_metadata", "identifier",
                             Submitted.CONTENT.Category)) = 0
       /\ Submitted.CONTENT.Category # Str("UmkehrN14")

C3_AlwaysReturnsReport ==
    (inputs.parse = "ok" /\ C3_NamedCase) => pc # "raised"

(* C4: check_deployment is invoked exactly when project, contributor and
   station all succeeded; otherwise no deployment lookup is issued and code 88
   is not in the report. *)
C4_DeploymentGate ==
    Past("deployment") =>
        LET all_ok == /\ Result("project") = "ok"
                      /\ Result("contributor") = "ok"
                      /\ Result("station") = "ok"
        IN  /\ Ran("deployment") <=> all_ok
            /\ ~all_ok => (88 \notin ReportCodes /\ ~LookedUp("deployment"))

\* project and contributor succeeded, station failed, deployment not run
C4_Witness ==
    /\ pc = "done"
    /\ Result("project") = "ok" /\ Result("contributor") = "ok"
    /\ Result("station") = "failed"
    /\ ~Ran("deployment")

(* C5: content runs iff dataset succeeded, contributor iff project succeeded,
   instrument iff dataset, station, contributor and instrument_name_model all
   succeeded; a check that did not run appended nothing, and a failed project
   keeps contributor, deployment and instrument from running. *)
C5_DependencyGates ==
    /\ Past("content") =>
          /\ Ran("content") <=> Result("dataset") = "ok"
          /\ ~Ran("content") =>
                ReportCodes \cap {53, 54, 55, 56, 57, 58} = {}
    /\ Past("contributor") =>
          /\ Ran("contributor") <=> Result("project") = "ok"
          /\ ~Ran("contributor") => 67 \notin ReportCodes
    /\ Past("instrument") =>
          /\ Ran("instrument") <=>
                /\ Result("dataset") = "ok" /\ Result("station") = "ok"
                /\ Result("contributor") = "ok"
                /\ Result("instrument_name_model") = "ok"
          /\ ~Ran("instrument") => 87 \notin ReportCodes
          /\ Result("project") = "failed" =>
                /\ ~Ran("contributor") /\ ~Ran("deployment")
                /\ ~Ran("instrument")

\* a failed project check with a passing dataset, station and name/model
C5_Witness ==
    /\ pc = "done"
    /\ Result("project") = "failed"
    /\ Result("dataset") = "ok" /\ Result("station") = "ok"
    /\ Result("instrument_name_model") = "ok"
    /\ ~Ran("contributor") /\ ~Ran("deployment") /\ ~Ran("instrument")

(* C6 (as claimed): check_location is invoked iff the instrument check's
   recorded result is failure. *)
C6_LocationRunsOnInstrumentFailure ==
    Past("location") => (Ran("location") <=> ~ok.instrument_ok)

(* C6 (amended): check_location is invoked iff the instrument check ran and
   succeeded; it is never invoked when the instrument check failed or was
   skipped. *)
C6_LocationRunsOnInstrumentSuccess ==
    Past("location") =>
        /\ Ran("location") <=> Result("instrument") = "ok"
        /\ Result("instrument") \in {"failed", "skipped"} =>
              /\ ~Ran("location")
              /\ ReportCodes \cap {76, 77, 78, 79, 80, 81} = {}

\* the location check ran after a successful instrument check
C6_Witness ==
    /\ pc = "done"
    /\ Result("instrument") = "ok"
    /\ Ran("location")

(* C7: the invoked checks are invoked one at a time, each at most once, in the
   fixed order; the errors and the warnings are grouped by check in that
   order, and a step only ever appends to them. *)
C7_Ordered ==
    /\ \A i, j \in 1..Len(invoked) :
          i < j => Position(invoked[i].check) < Position(invoked[j].check)
    /\ \A i, j \in 1..Len(errors) :
          i < j => Owner(errors[i].code) <= Owner(errors[j].code)
    /\ \A i, j \in 1..Len(warnings) :
          i < j => Owner(warnings[i].code) <= Owner(warnings[j].code)
    /\ \A i \in 1..Len(errors) :
          Owner(errors[i].code) > 0 =>
              Ran(CheckOrder[Owner(errors[i].code)])
    /\ \A i \in 1..Len(warnings) :
          Owner(warnings[i].code) > 0 =>
              Ran(CheckOrder[Owner(warnings[i].code)])

C7_FixedOrderAppendOnly ==
    /\ []C7_Ordered
    /\ [][/\ IsPrefix(errors, errors') /\ IsPrefix(warnings, warnings')
          /\ IsPrefix(invoked, invoked')
          /\ Len(invoked') <= Len(invoked) + 1]_vars

\* a finished run of all eleven checks in which three of them left an error
C7_Witness ==
    /\ pc = "done"
    /\ Len(invoked) = Len(CheckOrder)
    /\ {78, 63, 92} \subseteq ErrorCodes

(* C8: a station id shorter than 3 characters gets code 70 before the station
   lookup is sent; the id looked up and kept in the record is the submitted id
   left-padded with '0' to 3 characters, and longer ids are unchanged. *)
Padded(id) ==
    CASE Len(id) = 0 -> "000"
      [] Len(id) = 1 -> "00" \o id
      [] Len(id) = 2 -> "0" \o id
      [] OTHER -> id

StationLookups ==
    {i \in 1..Len(lookups) : lookups[i].index = IndexPrefix \o "station"}

\* code 70 was in the report when the i-th lookup was sent
TooShortBefore(i) ==
    \/ \E k \in 1..lookups[i].errors : errors[k].code = 70
    \/ \E k \in 1..lookups[i].warnings : warnings[k].code = 70

C8_StationIdPadded ==
    Ran("station") =>
        LET id == Submitted.PLATFORM.ID.s
        IN  /\ self.station_id = Str(Padded(id))
            /\ Cardinality(StationLookups) = 1
            /\ \A i \in StationLookups :
                  /\ lookups[i].value = Str(Padded(id))
                  /\ Len(id) < 3 => TooShortBefore(i)
            /\ (70 \in ReportCodes) <=> Len(id) < 3

\* the id "5" was looked up as "005"
C8_Witness ==
    /\ Ran("station")
    /\ Submitted.PLATFORM.ID = Str("5")
    /\ self.station_id = Str("005")
    /\ 70 \in ReportCodes
    /\ \E i \in StationLookups : lookups[i].value = Str("005")

(* C9: for a ship ('SHP') whose country is missing or '*IW', 'IW' or 'XZ' the
   record's country becomes 'XY' and 75 is recorded as a warning, which by
   itself does not fail the station check; otherwise the country is left as
   submitted and 75 is not recorded. *)
C9_AtSea ==
    /\ Submitted.PLATFORM.Type = Str("SHP")
    /\ Submitted.PLATFORM.Country \in
          {None, Str(""), Str("*IW"), Str("IW"), Str("XZ")}

C9_ShipCountryRewrite ==
    Ran("station") =>
        IF C9_AtSea
        THEN /\ self.country = Str("XY")
             /\ 75 \in WarningCodes /\ 75 \notin ErrorCodes
             /\ Result("station") = "failed" =>
                    ErrorCodes \cap {70, 71, 72, 73, 74} # {}
        ELSE /\ self.country = Submitted.PLATFORM.Country
             /\ 75 \notin ReportCodes

\* a ship submitted with country IW passes the station check with a warning
C9_Witness ==
    /\ Ran("station")
    /\ Submitted.PLATFORM.Type = Str("SHP")
    /\ Submitted.PLATFORM.Country = Str("IW")
    /\ self.country = Str("XY")
    /\ 75 \in WarningCodes
    /\ Result("station") = "ok"

(* C10: once check_content has returned on an UmkehrN14 submission, the
   record's level is 2.0 if the C_PROFILE table is present and 1.0 if not,
   whatever was submitted; codes 53 and 54 are warnings, and the level never
   changes without one of them being recorded. *)
C10_UmkehrLevel ==
    (/\ inputs.parse = "ok" /\ inputs.check_metadata
     /\ Submitted.CONTENT.Category = Str("UmkehrN14")
     /\ Result("content") \in {"ok", "failed"}) =>
        /\ self.level = IF "C_PROFILE" \in DOMAIN Submitted
                        THEN Flt(20) ELSE Flt(10)
        /\ ErrorCodes \cap {53, 54} = {}
        /\ self.level # Submitted.CONTENT.Level =>
              WarningCodes \cap {53, 54} # {}

\* level "1" without C_PROFILE became 1.0 with a coercion warning
C10_Witness ==
    /\ Submitted.CONTENT.Category = Str("UmkehrN14")
    /\ Submitted.CONTENT.Level = Str("1")
    /\ "C_PROFILE" \notin DOMAIN Submitted
    /\ Result("content") = "ok"
    /\ self.level = Flt(10)
    /\ 54 \in WarningCodes /\ 53 \notin ReportCodes

----------------------------------------------------------------------------
(* Vocabulary of the location, data generation and time series properties *)

Diags == errors \o warnings

Count(code) ==
    Cardinality({i \in 1..Len(Diags) : Diags[i].code = code})

\* the diagnostics with this code that name this field
Named(code, field) ==
    {i \in 1..Len(Diags) :
        /\ Diags[i].code = code
        /\ "field" \in DOMAIN Diags[i].kw
        /\ Diags[i].kw.field = field}

Numeric(v) == PyFloat(v).exc = ""
NonNumeric(v) == PyFloat(v).exc = "ValueError"
Value(v) == PyFloat(v).val

Returned(name) == Result(name) \in {"ok", "failed"}

(* C11: after check_location, a numeric latitude outside [-90, 90] has code 78
   with field Latitude, lower -90 and upper 90 and is left in the record; a
   non-numeric latitude has code 76 instead and is set to null in the record;
   a latitude inside the bounds, -90 and 90 included, has neither. *)
C11_LatitudeRange ==
    Returned("location") =>
        LET lat == Submitted.LOCATION.Latitude
            lon == Submitted.LOCATION.Longitude
            lon76 == IF NonNumeric(lon) THEN 1 ELSE 0
            valueline == inputs.line_num["LOCATION"] + 2
        IN  /\ \A i \in Named(78, "Latitude") :
                  Diags[i] = Diag(78, valueline,
                                  [field |-> "Latitude", lower |-> IntV(-90),
                                   upper |-> IntV(90)])
            /\ NonNumeric(lat) =>
                  /\ Count(76) = 1 + lon76
                  /\ Named(78, "Latitude") = {}
                  /\ self.latitude = None
            /\ Numeric(lat) =>
                  /\ Count(76) = lon76
                  /\ self.latitude = lat
                  /\ Named(78, "Latitude") # {}
                        <=> (Value(lat) < -900 \/ Value(lat) > 900)

\* latitude 90.1 was reported out of range and kept in the record
C11_Witness ==
    /\ Submitted.LOCATION.Latitude = Flt(901)
    /\ Result("location") = "failed"
    /\ Named(78, "Latitude") # {} /\ Count(76) = 0
    /\ self.latitude = Flt(901)

\* check_location fetched the reference instrument (the second lookup of the
\* instrument identifier; the first is check_instrument's)
Compared ==
    /\ Returned("location")
    /\ Cardinality({i \in 1..Len(lookups) :
                       /\ lookups[i].index = IndexPrefix \o "instrument"
                       /\ lookups[i].field = "identifier"}) = 2

\* the reference instrument's coordinates: longitude, latitude, height
Reference ==
    query_by_field("instrument", "identifier",
                   self.instrument_id)[1].geometry.coordinates

\* the submitted latitude lies within polar_latitude_range of a pole
InPolarBand ==
    /\ Numeric(Submitted.LOCATION.Latitude)
    /\ Abs(Value(Submitted.LOCATION.Latitude)) > 900 - polar_latitude_range

Beyond(submitted, reference, tolerance) ==
    Abs(Value(submitted) - reference.n) > tolerance

(* C12 (as claimed): when check_location compares the submission with the
   reference coordinates, it appends code 80 for the latitude, code 80 for the
   longitude (outside the polar band) and code 81 for the height exactly when
   the absolute difference is more than 1 degree, 1 degree and 50 m; a
   difference equal to the tolerance is accepted. *)
C12_DeviationBeyondTolerance ==
    Compared =>
        LET loc == Submitted.LOCATION
        IN  /\ Named(80, "Latitude") # {}
                  <=> Beyond(loc.Latitude, Reference[2],
                             latitude_error_distance)
            /\ ~InPolarBand =>
                  (Named(80, "Longitude") # {}
                     <=> Beyond(loc.Longitude, Reference[1],
                                longitude_error_distance))
            /\ Numeric(loc.Height) =>
                  (Count(81) # 0
                     <=> Beyond(loc.Height, Reference[3],
                                height_error_distance))

\* the latitude differs from the reference by exactly the tolerance
C12_AtTolerance ==
    /\ Compared
    /\ Abs(Value(Submitted.LOCATION.Latitude) - Reference[2].n)
          = latitude_error_distance
    /\ Named(80, "Latitude") # {}

\* check_location recorded no range and no non-numeric error
RangesPassed ==
    /\ Returned("location")
    /\ ErrorCodes \cap {76, 77, 78, 79} = {}

(* C13 (as claimed): when check_location has recorded no range or non-numeric
   error, it fetches and compares the reference coordinates for every
   non-ship platform and for ships when ships_ignore_location is off; the
   comparison is skipped for ships only when that flag is on. *)
C13_ShipsComparedUnlessIgnored ==
    RangesPassed =>
        (Compared <=> (Submitted.PLATFORM.Type # Str("SHP")
                         \/ ~ships_ignore_location))

\* a ship far from its reference latitude passed the location check unseen
C13_ShipNotCompared ==
    /\ Submitted.PLATFORM.Type = Str("SHP")
    /\ ~ships_ignore_location
    /\ Submitted.LOCATION.Latitude = Flt(426)
    /\ Result("location") = "ok" /\ ~Compared

Within(submitted, reference, tolerance) ==
    Abs(Value(submitted) - reference.n) < tolerance

(* C14: with polar_ignore_longitude on, a compared run whose submitted
   latitude lies within the polar band of either pole never carries a
   longitude deviation (code 80, field Longitude), whatever the longitude
   difference, while its latitude and height are still compared; outside the
   band the longitude is compared: a difference beyond the tolerance is
   reported and one within it is not. *)
C14_PolarLongitudeIgnored ==
    (Compared /\ polar_ignore_longitude) =>
        LET loc == Submitted.LOCATION
        IN  /\ InPolarBand =>
                  /\ Named(80, "Longitude") = {}
                  /\ Beyond(loc.Latitude, Reference[2],
                            latitude_error_distance)
                        => Named(80, "Latitude") # {}
                  /\ (Truthy(loc.Height) /\ Beyond(loc.Height, Reference[3],
                                                   height_error_distance))
                        => Count(81) # 0
            /\ ~InPolarBand =>
                  /\ Beyond(loc.Longitude, Reference[1],
                            longitude_error_distance)
                        => Named(80, "Longitude") # {}
                  /\ Within(loc.Longitude, Reference[1],
                            longitude_error_distance)
                        => Named(80, "Longitude") = {}

\* next to the south pole a longitude 79.4 degrees off went unreported while
\* the height deviation was reported
C14_Witness ==
    /\ Compared
    /\ Submitted.LOCATION.Latitude = Flt(-895)
    /\ Abs(Value(Submitted.LOCATION.Longitude) - Reference[1].n) = 794
    /\ Named(80, "Longitude") = {}
    /\ Named(80, "Latitude") # {}
    /\ Count(81) # 0

HasDot(s) == \E i \in 1..Len(s) : SubSeq(s, i, i) = "."

(* C15 (as claimed): check_data_generation reports a version that cannot be
   coerced to a number, absent or non-numeric text, with code 63 as an error
   and returns a failed result; for a numeric version it appends code 64
   exactly when the value is outside [0, 20] and code 65 exactly when the
   version text has no fractional part; an absent generation date appends
   code 62. *)
C15_VersionDiagnostics ==
    Ran("data_generation") =>
        LET version == Get(Submitted.DATA_GENERATION, "Version")
            date == Submitted.DATA_GENERATION.Date
        IN  /\ ~Numeric(version) =>
                  /\ 63 \in ErrorCodes
                  /\ Result("data_generation") = "failed"
            /\ Numeric(version) =>
                  /\ 63 \notin ReportCodes
                  /\ 64 \in ReportCodes
                        <=> (Value(version) < 0 \/ Value(version) > 200)
                  /\ 65 \in ReportCodes <=> ~HasDot(PyStr(version))
            /\ ~Truthy(date) => 62 \in ReportCodes

\* version "abc" ended check_data_generation with an uncaught ValueError
C15_NonNumericRaises ==
    /\ Get(Submitted.DATA_GENERATION, "Version") = Str("abc")
    /\ Result("data_generation") = "ValueError"
    /\ 63 \notin ReportCodes
    /\ pc = "raised"

\* everything the claim says, but for non-numeric text
C15_ButForText ==
    (Ran("data_generation")
       /\ PyFloat(Get(Submitted.DATA_GENERATION, "Version")).exc
             # "ValueError")
        => C15_VersionDiagnostics

\* the tables of the submission and the values of their columns
Tables == {inputs.order[k] : k \in 1..Len(inputs.order)}
Cells(table, name) ==
    {i \in 1..Len(column(Submitted[table], name)) : TRUE}
Cell(table, name, i) == column(Submitted[table], name)[i]
ValueLine(table, i) == inputs.line_num[table] + 2 + (i - 1)

GenerationDate == Submitted.DATA_GENERATION.Date
ReferenceTime == Get(Submitted.TIMESTAMP, "Time")

StartsWithTimestamp(table) ==
    Len(table) >= 9 /\ SubSeq(table, 1, 9) = "TIMESTAMP"

\* the Date diagnostic of the i-th Date value of a table is in the report
DateFlagged(table, i) ==
    \E k \in 1..Len(Diags) :
        Diags[k] = Diag(IF StartsWithTimestamp(table) THEN 91 ELSE 92,
                        ValueLine(table, i), [table |-> table])

\* the Date diagnostics of the report are those of the values flagged
OnlyFlaggedDates ==
    Count(91) + Count(92)
        = Cardinality({<<t, i>> \in Tables \X (1..4) :
                          i \in Cells(t, "Date") /\ DateFlagged(t, i)})

LaterThanGeneration(v) ==
    /\ ~NonComparable(v) /\ ~NonComparable(GenerationDate)
    /\ v.n > GenerationDate.n

(* C16 (as claimed): check_time_series appends a Date diagnostic for a Date
   value of a table other than DATA_GENERATION exactly when the value is later
   than the generation date or is itself non-comparable; the code is 91 for
   tables whose name starts with TIMESTAMP and 92 otherwise, the line is the
   table's first value line plus the index; no Date value of DATA_GENERATION
   is flagged. *)
C16_DateFlaggedIffLaterOrOdd ==
    Returned("time_series") =>
        /\ OnlyFlaggedDates
        /\ \A t \in Tables : \A i \in Cells(t, "Date") :
              DateFlagged(t, i)
                <=> /\ t # "DATA_GENERATION"
                    /\ \/ LaterThanGeneration(Cell(t, "Date", i))
                       \/ NonComparable(Cell(t, "Date", i))

(* C16 (amended): as above, and a Date value is also flagged whenever the
   generation date itself is non-comparable (text, integer or missing). *)
C16_DateFlagged ==
    Returned("time_series") =>
        /\ OnlyFlaggedDates
        /\ \A t \in Tables : \A i \in Cells(t, "Date") :
              DateFlagged(t, i)
                <=> /\ t # "DATA_GENERATION"
                    /\ \/ LaterThanGeneration(Cell(t, "Date", i))
                       \/ NonComparable(Cell(t, "Date", i))
                       \/ NonComparable(GenerationDate)

\* with no generation date, a date of the second TIMESTAMP table and an
\* ordinary date of DAILY were both flagged
C16_Witness ==
    /\ Returned("time_series")
    /\ GenerationDate = None
    /\ "TIMESTAMP_2" \in Tables /\ DateFlagged("TIMESTAMP_2", 1)
    /\ Cell("DAILY", "Date", 1) = Date(3) /\ DateFlagged("DAILY", 1)

\* the Time diagnostic of the i-th Time value of a table is in the report
TimeFlagged(table, i) ==
    \E k \in 1..Len(Diags) : Diags[k] = Diag(93, ValueLine(table, i), NoKw)

EarlierThanReference(v) ==
    /\ Truthy(ReferenceTime) /\ ~NonComparable(ReferenceTime)
    /\ ~NonComparable(v)
    /\ v.n < ReferenceTime.n

OnlyFlaggedTimes ==
    Count(93) = Cardinality({<<t, i>> \in Tables \X (1..4) :
                                i \in Cells(t, "Time") /\ TimeFlagged(t, i)})

(* C17 (as claimed): check_time_series appends code 93 for a Time value
   exactly when the reference time #TIMESTAMP.Time is known and comparable,
   the value is comparable and the value is earlier than the reference time;
   this holds for the Time column of every table of the submission. *)
C17_TimeFlaggedInEveryTable ==
    Returned("time_series") =>
        /\ OnlyFlaggedTimes
        /\ \A t \in Tables : \A i \in Cells(t, "Time") :
              TimeFlagged(t, i) <=> EarlierThanReference(Cell(t, "Time", i))

\* a Time value of DATA_GENERATION earlier than the reference time was not
\* flagged, while one of DAILY was
C17_GenerationTableSkipped ==
    /\ Returned("time_series")
    /\ 1 \in Cells("DATA_GENERATION", "Time")
    /\ EarlierThanReference(Cell("DATA_GENERATION", "Time", 1))
    /\ ~TimeFlagged("DATA_GENERATION", 1)
    /\ TimeFlagged("DAILY", 2)

\* everything the claim says, but for the DATA_GENERATION table
C17_ButForGenerationTable ==
    Returned("time_series") =>
        /\ OnlyFlaggedTimes
        /\ \A t \in Tables \ {"DATA_GENERATION"} :
              \A i \in Cells(t, "Time") :
                 TimeFlagged(t, i) <=> EarlierThanReference(Cell(t, "Time", i))

NotTimeSeriesCode(d) == d.code \notin {91, 92, 93}
NotTimeSeries(r) == r.check # "time_series"
RaisedInTimeSeries(call) ==
    /\ call.pc = "raised"
    /\ call.invoked[Len(call.invoked)].check = "time_series"

(* C18: with metadata_only set the time_series check is not invoked and no
   code 91, 92 or 93 is appended; every other check is invoked, looks up and
   reports exactly as in the call with the same file and metadata_only unset:
   the report is that call's report without its time series diagnostics. *)
C18_LaxSkipsOnlyTimeSeries ==
    /\ inputs.metadata_only =>
          /\ ~Ran("time_series")
          /\ ReportCodes \cap {91, 92, 93} = {}
    /\ (previous.called /\ pc \in {"done", "raised"}) =>
          /\ errors = SelectSeq(previous.errors, NotTimeSeriesCode)
          /\ warnings = SelectSeq(previous.warnings, NotTimeSeriesCode)
          /\ invoked = SelectSeq(previous.invoked, NotTimeSeries)
          /\ lookups = previous.lookups
          /\ ~RaisedInTimeSeries(previous) => pc = previous.pc
          /\ pc = "done" =>
                /\ summary.errors = errors /\ summary.warnings = warnings
                /\ summary.response <=> errors = <<>>

\* a file that failed on its time series alone passes in lax mode after the
\* same ten checks
C18_Witness ==
    /\ previous.called /\ pc = "done"
    /\ previous.pc = "done" /\ ~previous.summary.response
    /\ Len(previous.invoked) = 11 /\ Len(invoked) = 10
    /\ summary.response

----------------------------------------------------------------------------
(* Properties of wrap_query and unwrap_query *)

Wrapped == search.pc \in {"wrapped", "searched", "done"}

\* q is the nest of the layers of F from the i-th on around Q
RECURSIVE Layered(_, _, _, _)
Layered(q, F, i, Q) ==
    IF i > Len(F) THEN q = Q
    ELSE LET name == "distinct_" \o F[i]
         IN  /\ DOMAIN q = {name}
             /\ DOMAIN q[name] = {"terms", "aggregations"}
             /\ DOMAIN q[name].terms = {"size", "field", "order"}
             /\ q[name].terms.size = 10000
             /\ q[name].terms.field = "properties." \o F[i] \o ".raw"
             /\ q[name].terms.order = ("_key" :> "asc")
             /\ Layered(q[name].aggregations, F, i + 1, Q)

(* C19: wrap_query(Q, F) is a nest of exactly len(F) terms layers around Q;
   the i-th layer from the outside is named 'distinct_' + F[i] and groups on
   'properties.' + F[i] + '.raw' in ascending key order with size 10000; Q is
   innermost and unchanged, F = [] gives Q, repeated names give a layer
   each. *)
C19_WrapLayers ==
    Wrapped =>
        /\ Layered(search.query, search.props, 1, search.leaf)
        /\ search.props = <<>> => search.query = search.leaf

\* three layers of which the first and the last have the same name
C19_Witness ==
    /\ Wrapped
    /\ search.props = <<"station_name", "data_class", "station_name">>
    /\ search.leaf = Dated
    /\ search.query["distinct_station_name"].aggregations
          ["distinct_data_class"].aggregations
          ["distinct_station_name"].aggregations = Dated

Distinct(F) == \A i, j \in 1..Len(F) : i # j => F[i] # F[j]

\* the tuples of F-values that occur in the documents
Tuples(F, ds) ==
    {[f \in Range(F) |-> AllDocs[i].properties[f]] :
        i \in {d \in ds : Range(F) \subseteq DOMAIN AllDocs[d].properties}}

TupleOf(row, F) == [f \in Range(F) |-> row.properties[f]]

\* tuple a comes before tuple b, comparing the fields in the order of F
LexLess(a, b, F) ==
    \E i \in 1..Len(F) :
        /\ Rank(a[F[i]].s) < Rank(b[F[i]].s)
        /\ \A j \in 1..(i - 1) : a[F[j]] = b[F[j]]

(* C20: for a non-empty list F of distinct names, unwrapping the response to
   wrap_query(Q, F) returns exactly one record per tuple of F-values occurring
   in the documents, none twice and none left out; each record carries the
   bucket keys as its F-values, and the records come in the lexicographic
   order of the tuples. *)
C20_OneRecordPerTuple ==
    (search.pc = "done" /\ Len(search.props) > 0 /\ Distinct(search.props))
        => LET F == search.props
               rows == search.result.rows
           IN  /\ search.result.exc = ""
               /\ Len(rows) = Cardinality(Tuples(F, search.docs))
               /\ \A i \in 1..Len(rows) :
                     /\ Range(F) \subseteq DOMAIN rows[i].properties
                     /\ TupleOf(rows[i], F) \in Tuples(F, search.docs)
               /\ \A i, j \in 1..Len(rows) :
                     i < j => LexLess(TupleOf(rows[i], F),
                                      TupleOf(rows[j], F), F)

\* three documents in two groups of two fields, one of them shared
C20_Witness ==
    /\ search.pc = "done"
    /\ search.props = <<"station_name", "data_class">>
    /\ search.docs = {2, 5, 6}
    /\ Len(search.result.rows) = 2
    /\ search.result.rows[1].properties.data_class = Str("OzoneSonde")
    /\ search.result.rows[2].properties.data_class = Str("TotalOzone")

----------------------------------------------------------------------------
(* Properties of the base case of unwrap_query *)

\* the example hit list of the leaf payload of a request without fields
LeafHits == search.response["example"].hits.hits

Flattened == search.pc = "done" /\ search.props = <<>>

(* C21: for an empty field list unwrap_query never fails; a leaf payload
   whose example hit list is empty yields no record, any other leaf payload
   yields exactly one. *)
C21_LeafAtMostOne ==
    Flattened =>
        /\ search.result.exc = ""
        /\ Len(search.result.rows) = IF LeafHits = <<>> THEN 0 ELSE 1

\* no document matched: the hit list is empty and reading its first element
\* raises
C21_EmptyLeafRaises ==
    /\ Flattened
    /\ search.docs = {}
    /\ LeafHits = <<>>
    /\ search.result.exc = "IndexError"

\* with at least one hit the base case returns one record
C21_ButForEmptyLeaf ==
    (Flattened /\ LeafHits # <<>>) =>
        search.result.exc = "" /\ Len(search.result.rows) = 1

----------------------------------------------------------------------------
(* Properties of build_query and of requests that name several groups *)

Calls == 1..Len(search.built)

Names(source, field) ==
    source.given /\ \E i \in 1..Len(source.list) : source.list[i] = field

\* the leaf query inside the layers of props
RECURSIVE LeafOf(_, _)
LeafOf(q, props) ==
    IF Len(props) = 0 THEN q
    ELSE LeafOf(q["distinct_" \o props[1]].aggregations, Tail(props))

GroupLeaf(i) == LeafOf(search.built[i].query, search.groups[i].props)

(* C22: build_query is a pure transform: the caller's lists hold the same
   elements after a call as before it, and two successive calls with the
   same grouping list and the same representative-field list return equal
   query trees. *)
C22_BuildQueryPure ==
    /\ \A i \in Calls : search.built[i].after = search.built[i].before
    /\ \A i, j \in Calls :
          search.groups[i].props = search.groups[j].props
              => search.built[i].query = search.built[j].query

\* the second of two calls with the same lists builds another query, since
\* the first took 'start_date' out of the caller's list
C22_SecondCallDiffers ==
    /\ Len(search.built) = 2
    /\ search.groups[1].props = search.groups[2].props
    /\ search.given = Source(<<"waf_url", "start_date">>)
    /\ search.built[1].after = Source(<<"waf_url">>)
    /\ "start_date" \in DOMAIN GroupLeaf(1)
    /\ "start_date" \notin DOMAIN GroupLeaf(2)

\* a call whose representative-field list names no date leaves the list alone
C22_ButForDates ==
    \A i \in Calls :
        (~Names(search.built[i].before, "start_date")
           /\ ~Names(search.built[i].before, "end_date"))
            => search.built[i].after = search.built[i].before

(* C29: in a request that names several groups and whose representative
   fields name 'start_date' or 'end_date', the leaf query of every group has
   the min or max date aggregate, the leaf queries of all groups are equal,
   and every flattened row of every group carries the date. *)
C29_EveryGroupDated ==
    (search.kind = "mapping" /\ Len(search.groups) > 1)
        => /\ \A i \in Calls :
                /\ Names(search.given, "start_date")
                      => "start_date" \in DOMAIN GroupLeaf(i)
                /\ Names(search.given, "end_date")
                      => "end_date" \in DOMAIN GroupLeaf(i)
                /\ GroupLeaf(i) = GroupLeaf(1)
           /\ (search.pc = "returned" /\ search.result.exc = "")
                => \A i \in 1..Len(search.groups) :
                     \A r \in 1..Len(search.result.flattened[i]) :
                        LET properties ==
                                search.result.flattened[i][r].properties
                        IN  /\ Names(search.given, "start_date")
                                  => "start_date" \in DOMAIN properties
                            /\ Names(search.given, "end_date")
                                  => "end_date" \in DOMAIN properties

\* the rows of the first group carry the dates, the rows of the second do not
C29_SecondGroupUndated ==
    /\ search.kind = "mapping" /\ Len(search.groups) = 2
    /\ search.pc = "returned" /\ search.result.exc = ""
    /\ Names(search.given, "start_date") /\ Names(search.given, "end_date")
    /\ Len(search.result.flattened[1]) > 0
    /\ Len(search.result.flattened[2]) > 0
    /\ "start_date" \in DOMAIN search.result.flattened[1][1].properties
    /\ "end_date" \in DOMAIN search.result.flattened[1][1].properties
    /\ "start_date" \notin DOMAIN search.result.flattened[2][1].properties
    /\ "end_date" \notin DOMAIN search.result.flattened[2][1].properties

\* the one group of a list request always carries the dates asked for
C29_ButForLaterGroups ==
    (Len(search.built) > 0)
        => /\ Names(search.given, "start_date")
                => "start_date" \in DOMAIN GroupLeaf(1)
           /\ Names(search.given, "end_date")
                => "end_date" \in DOMAIN GroupLeaf(1)

----------------------------------------------------------------------------
(* Properties of the checks' results and of the lines they report *)

\* the step taken is an invocation of a check that returned
Invocation ==
    /\ Len(invoked') = Len(invoked) + 1
    /\ invoked'[Len(invoked')].result \in {"ok", "failed"}

(* C24: an invoked check that returns has a failed result if and only if it
   appended at least one error during that invocation; with warnings only, or
   nothing, it returns success.  Hence a report without errors has no failed
   invoked check. *)
C24_FailedIffErrorAppended ==
    /\ [][Invocation =>
            (invoked'[Len(invoked')].result = "failed"
                <=> Len(errors') > Len(errors))]_vars
    /\ [](errors = <<>> =>
            \A i \in 1..Len(invoked) : invoked[i].result # "failed")

\* a run in which one check returned success with a warning appended and a
\* later check failed with an error
C24_Witness ==
    /\ pc = "done"
    /\ Result("instrument_name_model") = "ok"
    /\ 85 \in WarningCodes
    /\ Result("instrument") = "failed"
    /\ 87 \in ErrorCodes

\* the table whose line a check's diagnostic is reported against
OwningTable(code) ==
    CASE code \in {51, 52, 53, 54, 55, 56, 57, 58} -> "CONTENT"
      [] code \in {62, 63, 64, 65, 67} -> "DATA_GENERATION"
      [] code \in {70, 71, 72, 73, 74, 75, 88} -> "PLATFORM"
      [] code \in {82, 83, 85, 86, 87} -> "INSTRUMENT"
      [] code \in {76, 77, 78, 79, 80, 81} -> "LOCATION"

\* the line of the diagnostic is its table's line plus the header offset and,
\* for a time series value, the value's index
OffsetLine(d) ==
    IF Owner(d.code) = 11
    THEN \E t \in Tables :
            \E i \in Cells(t, IF d.code = 93 THEN "Time" ELSE "Date") :
                d.line = ValueLine(t, i)
    ELSE d.line = inputs.line_num[OwningTable(d.code)] + 2

ByCheck(d) == Owner(d.code) # 0

(* C25: every diagnostic appended by a check carries the line of its owning
   table plus the header offset of 2 (plus the value's index in a time series
   column), the diagnostics 62 to 65 of check_data_generation included. *)
C25_LinesHaveHeaderOffset ==
    \A k \in 1..Len(Diags) : ByCheck(Diags[k]) => OffsetLine(Diags[k])

\* a data_generation diagnostic on the line of the table's header
C25_GenerationLineWithoutOffset ==
    \E k \in 1..Len(Diags) :
        /\ Diags[k].code \in {62, 63, 64, 65}
        /\ Diags[k].line = inputs.line_num["DATA_GENERATION"]

\* the diagnostics of every other check have the offset
C25_ButForDataGeneration ==
    \A k \in 1..Len(Diags) :
        (ByCheck(Diags[k]) /\ Owner(Diags[k].code) # 10)
            => OffsetLine(Diags[k])

----------------------------------------------------------------------------
(* Properties of check_instrument *)

\* a cell that is empty or holds a placeholder
Missing(v) ==
    \/ v = None
    \/ v = Str("")
    \/ lower(PyStr(v)) \in {"na", "n/a"}

Component(v) == IF Missing(v) THEN "UNKNOWN" ELSE PyStr(v)

\* name:model:number:dataset:station_id:agency:project of the submission
ExpectedInstrumentId ==
    JoinText(<<Str(Component(Submitted.INSTRUMENT.Name)),
               Str(Component(Submitted.INSTRUMENT.Model)),
               Str(Component(Submitted.INSTRUMENT.Number)),
               Submitted.CONTENT.Category,
               Str(Padded(Submitted.PLATFORM.ID.s)),
               Submitted.DATA_GENERATION.Agency,
               Submitted.CONTENT.Class>>, ":")

InstrumentLookups ==
    {i \in 1..Len(lookups) :
        lookups[i].index = IndexPrefix \o "instrument"
            /\ lookups[i].kind = "term"}

Registered(ident) ==
    Len(SelectSeq(registry[IndexPrefix \o "instrument"],
                  LAMBDA d : d.properties.identifier = ident))

InstrumentIdLookedUp ==
    /\ InstrumentLookups # {}
    /\ \A i \in InstrumentLookups :
          /\ lookups[i].field = "identifier"
          /\ lookups[i].value = Str(ExpectedInstrumentId)
    /\ Count(87) = IF Registered(ExpectedInstrumentId) = 1 THEN 0 ELSE 1

(* C26: when check_instrument runs it looks up
   name:model:number:dataset:station_id:agency:project, joined with ':' in
   that order, and appends code 87 iff the lookup does not return exactly one
   document; name, model and number are 'UNKNOWN' when missing or 'na'/'n/a',
   the station id is zero-padded to 3 characters and the dataset is the
   submitted #CONTENT.Category. *)
C26_InstrumentIdentifier ==
    Returned("instrument") => InstrumentIdLookedUp

\* the text of a Model or Number cell, as execute loads it into the record
Text(v) ==
    IF PyStr(v) = "" \/ lower(PyStr(v)) \in {"na", "n/a"} THEN "UNKNOWN"
    ELSE PyStr(v)

\* the dataset as check_content leaves it in the record
DatasetOfRecord ==
    IF Submitted.CONTENT.Category # Str("UmkehrN14")
    THEN Submitted.CONTENT.Category
    ELSE IF "C_PROFILE" \in DOMAIN Submitted THEN Str("UmkehrN14_2.0")
    ELSE Str("UmkehrN14_1.0")

InstrumentIdOfRecord ==
    JoinText(<<Str(Component(Submitted.INSTRUMENT.Name)),
               Str(Text(Submitted.INSTRUMENT.Model)),
               Str(Text(Submitted.INSTRUMENT.Number)),
               DatasetOfRecord,
               Str(Padded(Submitted.PLATFORM.ID.s)),
               Submitted.DATA_GENERATION.Agency,
               Submitted.CONTENT.Class>>, ":")

(* C26, amended: as C26, but the dataset component is the record's dataset as
   check_content leaves it: the submitted #CONTENT.Category, with '_' and the
   level (1.0, or 2.0 when a #C_PROFILE table is present) appended when it is
   'UmkehrN14'; and Model and Number are the text of the cell, 'UNKNOWN' when
   that text is empty or 'na'/'n/a'. *)
C26_IdentifierOfRecord ==
    Returned("instrument") =>
        /\ InstrumentLookups # {}
        /\ \A i \in InstrumentLookups :
              /\ lookups[i].field = "identifier"
              /\ lookups[i].value = Str(InstrumentIdOfRecord)
        /\ self.instrument_id = Str(InstrumentIdOfRecord)
        /\ Count(87) = IF Registered(InstrumentIdOfRecord) = 1 THEN 0 ELSE 1

\* an UmkehrN14 file is looked up, and found, under UmkehrN14_1.0
C26_Witness ==
    /\ Result("instrument") = "ok"
    /\ Submitted.CONTENT.Category = Str("UmkehrN14")
    /\ \E i \in InstrumentLookups :
          lookups[i].value
              = Str("Brewer:MKII:123:UmkehrN14_1.0:065:MSC:WOUDC")
    /\ Count(87) = 0

----------------------------------------------------------------------------
(* Properties of check_station *)

\* the documents of the station index with the padded id of the submission
StationDocs ==
    SelectSeq(registry[IndexPrefix \o "station"],
              LAMBDA d : d.properties.woudc_id
                            = Padded(Submitted.PLATFORM.ID.s))

TypeMatches ==
    /\ Submitted.PLATFORM.Type.s \in {"STN", "SHP"}
    /\ Submitted.PLATFORM.Type.s = StationDocs[1].properties.type

NameMatches ==
    Submitted.PLATFORM.Name = Str(StationDocs[1].properties.name)

(* C27: in check_station a lookup that does not return exactly one document
   appends error 71 and ends the check: no code 72, 73 or 74 and no country
   lookup.  With exactly one document the type and the name are both
   compared, and the country is looked up and compared only if the check has
   recorded no error so far. *)
C27_StationShortCircuit ==
    Returned("station") =>
        IF Len(StationDocs) # 1
        THEN /\ 71 \in ErrorCodes
             /\ Result("station") = "failed"
             /\ ReportCodes \cap {72, 73, 74} = {}
             /\ ~LookedUp("country")
        ELSE /\ 71 \notin ReportCodes
             /\ (72 \in ReportCodes) <=> ~TypeMatches
             /\ (73 \in ReportCodes) <=> ~NameMatches
             /\ LookedUp("country") <=> ErrorCodes \cap {70, 72, 73} = {}
             /\ 74 \in ReportCodes => LookedUp("country")

\* two stations have the id: code 71 alone, although the name is wrong too
C27_Witness ==
    /\ Returned("station")
    /\ Len(StationDocs) = 2
    /\ Submitted.PLATFORM.Name = Str("Wrong")
    /\ 71 \in ErrorCodes
    /\ ReportCodes \cap {72, 73, 74} = {}
    /\ ~LookedUp("country")

----------------------------------------------------------------------------
(* Vocabulary of the field names of the location diagnostics *)

One(condition) == IF condition THEN 1 ELSE 0

OutOfRange(v, bound) == Numeric(v) /\ (Value(v) < -bound \/ Value(v) > bound)

\* the coordinate differs from the reference instrument's
Deviates(v, reference) ==
    Compared /\ Numeric(v) /\ Value(v) # reference.n

(* C30 (as claimed): every field-specific diagnostic of check_location names
   the coordinate whose value triggered it: code 76 names Latitude exactly
   when the latitude is not numeric and Longitude exactly when the longitude
   is not numeric, code 78 names the coordinate that is out of range, and
   code 80 names a coordinate that deviates from the reference. *)
C30_FieldNamesCoordinate ==
    Returned("location") =>
        LET lat == Submitted.LOCATION.Latitude
            lon == Submitted.LOCATION.Longitude
        IN  /\ Cardinality(Named(76, "Latitude")) = One(NonNumeric(lat))
            /\ Cardinality(Named(76, "Longitude")) = One(NonNumeric(lon))
            /\ Cardinality(Named(78, "Latitude")) = One(OutOfRange(lat, 900))
            /\ Cardinality(Named(78, "Longitude"))
                  = One(OutOfRange(lon, 1800))
            /\ Named(80, "Latitude") # {} => Deviates(lat, Reference[2])
            /\ Named(80, "Longitude") # {} => Deviates(lon, Reference[1])

\* a non-numeric latitude beside a numeric longitude was reported as a
\* non-numeric Longitude, and no diagnostic names Latitude
C30_LatitudeReportedAsLongitude ==
    /\ Returned("location")
    /\ NonNumeric(Submitted.LOCATION.Latitude)
    /\ Numeric(Submitted.LOCATION.Longitude)
    /\ Cardinality(Named(76, "Longitude")) = 1
    /\ Named(76, "Latitude") = {}

\* but for the non-numeric latitude, every diagnostic names its coordinate
C30_ButForNonNumericLatitude ==
    (Returned("location") /\ ~NonNumeric(Submitted.LOCATION.Latitude))
        => C30_FieldNamesCoordinate

----------------------------------------------------------------------------
(* Vocabulary of the metrics index property *)

\* the request filters for one of the peer datasets
PeerRequest(req) == req.dataset # None /\ req.dataset.s \in PeerDatasets

IndexOf(req) ==
    IF PeerRequest(req) THEN IndexPrefix \o "peer_data_record"
    ELSE IndexPrefix \o "data_record"

(* C28 (as claimed): every request one MetricsProcessor object handles
   queries peer_data_record if and only if its own dataset filter is one of
   the four peer datasets and data_record otherwise, whatever requests the
   object handled before. *)
C28_IndexOfOwnRequest ==
    metrics.pc # "absent" =>
        \A i \in 1..Len(metrics.searches) :
            metrics.searches[i].index = IndexOf(metrics.searches[i].inputs)

\* after a request for a peer dataset, a request with no dataset filter was
\* sent to peer_data_record
C28_PeerIndexKept ==
    /\ metrics.pc = "idle"
    /\ Len(metrics.searches) = 2
    /\ PeerRequest(metrics.searches[1].inputs)
    /\ metrics.searches[2].inputs.dataset = None
    /\ metrics.searches[2].index = IndexPrefix \o "peer_data_record"

\* but for the requests that follow a peer request, each request queries the
\* index of its own dataset filter
C28_ButForEarlierPeerRequest ==
    metrics.pc # "absent" =>
        \A i \in 1..Len(metrics.searches) :
            (\A j \in 1..(i - 1) : ~PeerRequest(metrics.searches[j].inputs))
                => metrics.searches[i].index
                     = IndexOf(metrics.searches[i].inputs)

----------------------------------------------------------------------------
(* Vocabulary of the overlapping calls *)

\* what the submission of this request ended in when it was validated alone
Alone(req) ==
    threads.alone[CHOOSE i \in 1..2 : threads.submissions[i] = req]

Ended(call) == call.pc \in {"done", "raised"}

\* what a call that has ended returned: its report, or the exception
Returns(call) == [pc |-> call.pc, summary |-> call.summary]

Running == [pc |-> pc, inputs |-> inputs, ok |-> ok, summary |-> summary]

Overlapping == threads.phase = "overlap"

(* C23 (as claimed): when two execute calls for different submissions overlap
   on one ExtendedCSVProcessor object, each call returns exactly the report
   its submission gets when validated alone, and every check that runs finds
   the file of its own call in self.ecsv. *)
C23_OverlappingRunsIndependent ==
    /\ [](Overlapping =>
            \A call \in {Running, threads.waiting} :
                Ended(call) => Returns(call) = Alone(call.inputs))
    /\ [][(Overlapping /\ Len(invoked') > Len(invoked))
             => ecsv.extcsv = inputs.extcsv]_vars

\* the call for the clean submission returned the report of the other call's
\* submission, whose station name is wrong
C23_ReportOfOtherRun ==
    /\ Overlapping
    /\ pc = "done"
    /\ inputs = Checked(GoodTables, GoodOrder, FALSE)
    /\ Alone(inputs).summary.response
    /\ ~summary.response
    /\ \E i \in 1..Len(summary.errors) : summary.errors[i].code = 73

\* but for a switch in the middle of a call, each call returns the report of
\* its own submission
C23_ButForSwitchInsideCall ==
    (Overlapping /\ ~threads.midrun) =>
        \A call \in {Running, threads.waiting} :
            Ended(call) => Returns(call) = Alone(call.inputs)

====
